---- MODULE Spec2Model ----
(***************************************************************************)
(* Model of the vision-to-control loop of delago.ia_vision_extension:      *)
(*   main.py            ViewportAnalyzer.analyze_control (the coordinator) *)
(*   camera_control.py  CameraControl (the camera pose transport)          *)
(*   extension.py       the Apply / Stop handlers and their asyncio tasks  *)
(*                                                                         *)
(* A coroutine is modelled by its suspension points: one action is the     *)
(* code that runs between two awaits.  Attribute values (doubles in the    *)
(* program) are fixed-point numbers, an integer v standing for v / Scale.  *)
(***************************************************************************)
EXTENDS Integers, Sequences, FiniteSets, TLC

\* ------------------------------------------------------------------ bounds
\* Number of asyncio task objects of _worker alive at once (a task object
\* lives until it has ended and neither self._task nor a _stop refers to it).
MaxRuns == 2
\* Number of _stop coroutines pending at once.
MaxStops == 1
\* Number of model replies the endpoint gives in one behaviour of Spec.
MaxCalls == 1
\* Fixed-point denominators: attribute values, and total_translation.
Scale == 2
Milli == 1000

\* ------------------------------------------------------- program constants
max_iters == 10
SettleFrames == 12

Runs == 1..MaxRuns
None == "<None>"
Absent == << >>
NoImage == 0
NoSummary == << >>

VARIABLES
    cam,          \* the active camera prim: xformOp:translate, xformOp:rotateXYZ
    run,          \* per task: the frame of _worker/run_analyze_control/analyze_control
    task,         \* self._task (0 is None)
    label,        \* self.ai_response_label.text
    last_result,  \* self.last_result
    last_input,   \* self.last_input
    ai_question,  \* self.ai_question
    stop_ready,   \* _stop coroutines scheduled and not yet started
    stop_await,   \* per task: _stop coroutines suspended in "await self._task"
    calls_left,   \* replies the endpoint still gives
    hist,         \* per task: the replies analyze_control received, in order
    cnt,          \* per task: captures, model calls, deltas applied, frame waits
    ret,          \* per task: what the caller of analyze_control observed
    cam_at_call,  \* per task: the camera when the pending model call was issued
    prior,        \* per task: last_result and last_input when the run started
    rotate_type,  \* value type of the camera's xformOp:rotateXYZ ("none": no such attribute)
    last_call,    \* the last direct call of a CameraControl or client method
    ai,           \* self.analyzer.ai: the class of the client the coordinator holds
    used          \* per task: the classes of the clients its model calls were made with

vars == << cam, run, task, label, last_result, last_input, ai_question,
           stop_ready, stop_await, calls_left, hist, cnt, ret, cam_at_call,
           prior, rotate_type, last_call, ai, used >>

\* ------------------------------------------------------------- arithmetic
Abs(x) == IF x < 0 THEN -x ELSE x

\* Python int(): truncation toward zero of the fixed-point value v.
Trunc(v) == IF v >= 0 THEN (v \div Scale) * Scale ELSE -(((-v) \div Scale) * Scale)

RECURSIVE ISqrtR(_, _, _)
ISqrtR(n, lo, hi) ==
    IF lo >= hi THEN lo
    ELSE LET mid == (lo + hi + 1) \div 2
         IN  IF mid * mid <= n THEN ISqrtR(n, mid, hi) ELSE ISqrtR(n, lo, mid - 1)

\* x ** 0.5 in units of 1/Milli (x an integer number of squared centimetres).
Sqrt(x) == ISqrtR(x * Milli * Milli, 0, (x + 1) * Milli)

\* ------------------------------------------------- the structured response
\* AICameraParameters; answer is None or a string.
Command(a, d, e, f, u, r, p, y) ==
    [answer |-> a, done |-> d, explanation |-> e,
     forward |-> f, upward |-> u, right |-> r, pitch |-> p, yaw |-> y]

\* The replies the endpoint may give (validated commands).
Commands ==
    { Command(None, FALSE, "e1", 3, 0, -4, 0, 0),
      Command(None, FALSE, "e2", 0, 1, 0, -90, 90),
      Command("a1", TRUE, "e3", 0, 0, 0, 0, 0),
      Command(None, TRUE, "e1", 2, 0, 0, 0, 90) }

NoResponse == Command(None, FALSE, "<unbound>", 0, 0, 0, 0, 0)

model_dump_json(c) ==
    << c.answer, c.done, c.explanation, c.forward, c.upward, c.right, c.pitch, c.yaw >>

\* ------------------------------------------------------------ the camera
\* cos and sin of a fixed-point angle; the poses drawn are axis-aligned.
Turn(a) == (a \div Scale) % 360
Cos(a) == CASE Turn(a) = 0 -> 1 [] Turn(a) = 90 -> 0 [] Turn(a) = 180 -> -1 [] Turn(a) = 270 -> 0
Sin(a) == CASE Turn(a) = 0 -> 0 [] Turn(a) = 90 -> 1 [] Turn(a) = 180 -> 0 [] Turn(a) = 270 -> -1

\* Row-vector rotation matrices of the rotateXYZ op (X applied first).
RotX(a) == << <<1, 0, 0>>, <<0, Cos(a), Sin(a)>>, <<0, -Sin(a), Cos(a)>> >>
RotY(a) == << <<Cos(a), 0, -Sin(a)>>, <<0, 1, 0>>, <<Sin(a), 0, Cos(a)>> >>
RotZ(a) == << <<Cos(a), Sin(a), 0>>, <<-Sin(a), Cos(a), 0>>, <<0, 0, 1>> >>
Identity3 == << <<1, 0, 0>>, <<0, 1, 0>>, <<0, 0, 1>> >>
MatMul(A, B) ==
    [i \in 1..3 |-> [j \in 1..3 |-> A[i][1] * B[1][j] + A[i][2] * B[2][j] + A[i][3] * B[3][j]]]

\* cam_xf.ComputeLocalToWorldTransform: the camera is a root prim whose only
\* rotation is its rotateXYZ op (none: no rotation).
ComputeLocalToWorldTransform(c) ==
    IF c.rotateXYZ = Absent THEN Identity3
    ELSE MatMul(MatMul(RotX(c.rotateXYZ[1]), RotY(c.rotateXYZ[2])), RotZ(c.rotateXYZ[3]))

LocalVector_mirrored(p) ==
    LET move_left == -p.right
        move_up == p.upward
        move_forward == p.forward
    IN  << move_left * Scale, move_up * Scale, (-move_forward) * Scale >>

\* local_vector = Gf.Vec3d(-move_left, move_up, -move_forward), in
\* fixed-point units.
LocalVector(p) ==
    LET move_left == -p.right
        move_up == p.upward
        move_forward == p.forward
    IN  << (-move_left) * Scale, move_up * Scale, (-move_forward) * Scale >>

MovesTranslation_always(p) == TRUE
MovesTranslation_positive(p) == -p.right > 0 \/ p.upward > 0 \/ p.forward > 0
MovesTranslation(p) == Abs(-p.right) > 0 \/ Abs(p.upward) > 0 \/ Abs(p.forward) > 0
MovesRotation_always(p) == TRUE
MovesRotation(p) == Abs(p.pitch) > 0 \/ Abs(-p.yaw) > 0

NewTranslate_exact(c, p) ==
    IF MovesTranslation(p)
    THEN LET current_t == IF c.translate = Absent THEN <<0, 0, 0>> ELSE c.translate
             M == ComputeLocalToWorldTransform(c)
             v == LocalVector(p)
             world == [j \in 1..3 |-> M[1][j] * v[1] + M[2][j] * v[2] + M[3][j] * v[3]]
         IN  [j \in 1..3 |-> current_t[j] + world[j]]
    ELSE c.translate

\* The translate attribute after the call.
NewTranslate(c, p) ==
    IF MovesTranslation(p)
    THEN LET current_t == IF c.translate = Absent THEN <<0, 0, 0>> ELSE c.translate
             M == ComputeLocalToWorldTransform(c)
             v == LocalVector(p)
             world == [j \in 1..3 |-> M[1][j] * v[1] + M[2][j] * v[2] + M[3][j] * v[3]]
         IN  [j \in 1..3 |-> Trunc(current_t[j]) + Trunc(world[j])]
    ELSE c.translate

NewRotate_creating(c, p) ==
    IF MovesRotation(p)
    THEN LET current_r == IF c.rotateXYZ = Absent THEN <<0, 0, 0>> ELSE c.rotateXYZ
         IN  << Trunc(current_r[1]) + Trunc(p.pitch * Scale),
                Trunc(current_r[2]),
                Trunc(current_r[3]) + Trunc((-p.yaw) * Scale) >>
    ELSE c.rotateXYZ

NewRotate_unsigned(c, p) ==
    IF MovesRotation(p) /\ c.rotateXYZ # Absent
    THEN LET current_r == c.rotateXYZ
             watch_up == p.pitch
             watch_left == p.yaw
         IN  << Trunc(current_r[1]) + Trunc(watch_up * Scale),
                Trunc(current_r[2]),
                Trunc(current_r[3]) + Trunc(watch_left * Scale) >>
    ELSE c.rotateXYZ

\* The rotateXYZ attribute after the call.
NewRotate(c, p) ==
    IF MovesRotation(p) /\ c.rotateXYZ # Absent
    THEN LET current_r == c.rotateXYZ
             watch_up == p.pitch
             watch_left == -p.yaw
         IN  << Trunc(current_r[1]) + Trunc(watch_up * Scale),
                Trunc(current_r[2]),
                Trunc(current_r[3]) + Trunc(watch_left * Scale) >>
    ELSE c.rotateXYZ

apply_translate_and_rotate_ai(c, p) ==
    [translate |-> NewTranslate(c, p), rotateXYZ |-> NewRotate(c, p)]

\* get_initial_camera_position raises when Gf.Vec3d is given no value.
GetInitialRaises(c) == c.translate = Absent \/ c.rotateXYZ = Absent
get_initial_camera_position(c) == << c.translate, c.rotateXYZ >>

InitialCamParameters_truncated(c) ==
    [translation |-> [j \in 1..3 |-> Trunc(c.translate[j])],
     rotation |-> [j \in 1..3 |-> Trunc(c.rotateXYZ[j])]]

\* json.dumps({"translation": list(translation), "rotation": list(rotation)})
InitialCamParameters(c) ==
    LET tr == get_initial_camera_position(c)
    IN  [translation |-> tr[1], rotation |-> tr[2]]

\* The camera poses a behaviour may start from.
CamInits ==
    { [translate |-> <<0, 0, 0>>, rotateXYZ |-> <<0, 0, 0>>],
      [translate |-> <<Scale + 1, -1, 0>>, rotateXYZ |-> <<90 * Scale, 0, 180 * Scale>>],
      [translate |-> <<0, 0, 0>>, rotateXYZ |-> Absent] }

\* The value type of the rotateXYZ attribute of the cameras above.
TypeOfRotate(c) == IF c.rotateXYZ = Absent THEN "none" ELSE "double3"
NoCall == [n |-> 0, op |-> "none", prev |-> << >>]

\* -------------------------------------------------- analyze_control, pure
\* The frame of one task: _worker -> run_analyze_control -> analyze_control.
\* pc: "none" (no such task), "ready" (scheduled by ensure_future), the await
\* the task is suspended at ("capture", "model", "settle"), or how it ended
\* ("noquestion", "returned", "raised", "cancelled").
IdleRun ==
    [pc |-> "none", must_cancel |-> FALSE, question |-> "", i |-> 0,
     img_path |-> NoImage, prev_img |-> NoImage, last_action_summary |-> NoSummary,
     total_translation |-> 0, total_rotation |-> 0,
     initial_cam_parameters |-> [translation |-> Absent, rotation |-> Absent],
     ai_response |-> NoResponse, frames |-> 0]

Active == {"capture", "model", "settle"}
Ended == {"noquestion", "returned", "raised", "cancelled"}
TaskDone(r) == run[r].pc \in Ended

NoResult == [status |-> "none"]
Raised == [status |-> "exception"]
CancelledError == [status |-> "cancelled"]
NoCount == [captures |-> 0, calls |-> 0, deltas |-> 0, waits |-> 0]

\* The file a capture of iteration i of task r writes (timestamped, so unique).
ImagePath(r, i) == 100 * r + i

step_rotation_signed(resp) == Abs(resp.pitch + resp.yaw)
step_translation_signed(resp) == (resp.forward + resp.upward + resp.right) * Milli
step_translation_manhattan(resp) == (Abs(resp.forward) + Abs(resp.upward) + Abs(resp.right)) * Milli
step_translation(resp) == Sqrt(resp.forward * resp.forward + resp.upward * resp.upward + resp.right * resp.right)
step_rotation(resp) == Abs(resp.pitch) + Abs(resp.yaw)

EnterLoop_surviving(f, c) ==
    [f EXCEPT !.pc = "capture", !.i = 1, !.prev_img = NoImage,
              !.last_action_summary = NoSummary,
              !.total_translation = IF last_result.status \in {"error", "done", "max_iters_reached"}
                                    THEN last_result.total_translation ELSE 0,
              !.total_rotation = 0,
              !.initial_cam_parameters = InitialCamParameters(c)]

\* Entry of analyze_control, up to the first save_async.
EnterLoop(f, c) ==
    [f EXCEPT !.pc = "capture", !.i = 1, !.prev_img = NoImage,
              !.last_action_summary = NoSummary,
              !.total_translation = 0, !.total_rotation = 0,
              !.initial_cam_parameters = InitialCamParameters(c)]

ErrorResult_completed(f) ==
    [status |-> "error", reason |-> "screenshot_failed",
     initial_cam_parameters |-> f.initial_cam_parameters, iterations |-> f.i - 1,
     total_translation |-> f.total_translation, total_rotation |-> f.total_rotation]

ErrorResult(f) ==
    [status |-> "error", reason |-> "screenshot_failed",
     initial_cam_parameters |-> f.initial_cam_parameters, iterations |-> f.i,
     total_translation |-> f.total_translation, total_rotation |-> f.total_rotation]

DoneResult_blank(f, resp) ==
    [status |-> "done", answer |-> IF resp.answer = None THEN "" ELSE resp.answer,
     final_explanation |-> resp.explanation,
     initial_cam_parameters |-> f.initial_cam_parameters, iterations |-> f.i,
     total_translation |-> f.total_translation, total_rotation |-> f.total_rotation]

DoneResult(f, resp) ==
    [status |-> "done", answer |-> resp.answer, final_explanation |-> resp.explanation,
     initial_cam_parameters |-> f.initial_cam_parameters, iterations |-> f.i,
     total_translation |-> f.total_translation, total_rotation |-> f.total_rotation]

MaxItersResult(f) ==
    [status |-> "max_iters_reached", last_explanation |-> f.ai_response.explanation,
     initial_cam_parameters |-> f.initial_cam_parameters, iterations |-> f.i,
     total_translation |-> f.total_translation, total_rotation |-> f.total_rotation]

\* "if ai_response.done": the reply ends the loop.
Terminal(resp) == resp.done

Move_stale(f, resp) ==
    [f EXCEPT !.pc = "settle", !.frames = 0,
              !.ai_response = IF f.i = 1 THEN resp ELSE @,
              !.total_translation = @ + step_translation(resp),
              !.total_rotation = @ + step_rotation(resp)]

\* The else branch, up to the first next_update_async of _wait_frames(12).
Move(f, resp) ==
    [f EXCEPT !.pc = "settle", !.frames = 0, !.ai_response = resp,
              !.total_translation = @ + step_translation(resp),
              !.total_rotation = @ + step_rotation(resp)]

CameraAfterResponse_always(c, resp) == apply_translate_and_rotate_ai(c, resp)

\* The camera after a reply has been handled.
CameraAfterResponse(c, resp) ==
    IF Terminal(resp) THEN c ELSE apply_translate_and_rotate_ai(c, resp)

CameraAfterRaise_rollback(c, f) ==
    [translate |-> f.initial_cam_parameters.translation,
     rotateXYZ |-> f.initial_cam_parameters.rotation]

\* The camera after the client call raised: analyze_control has no handler.
CameraAfterRaise(c, f) == c

SettleDone_short(frames) == frames >= SettleFrames - 1

\* "for _ in range(n_frames)" of _wait_frames(12) is exhausted.
SettleDone(frames) == frames >= SettleFrames

Remember_oldest(f) ==
    [f EXCEPT !.prev_img = IF @ = NoImage THEN f.img_path ELSE @,
              !.last_action_summary = model_dump_json(f.ai_response)]

\* After the last frame wait: the history of the next iteration.
Remember(f) ==
    [f EXCEPT !.prev_img = f.img_path,
              !.last_action_summary = model_dump_json(f.ai_response)]

LoopContinues_early(i) == i < max_iters - 1

\* "for i in range(1, max_iters + 1)": another iteration follows iteration i.
LoopContinues(i) == i < max_iters

\* format_result
PyStr(v) == IF v = None THEN "None" ELSE v
format_result(result) ==
    CASE result.status = "error" -> << "Screenshot failed", result.reason >>
      [] result.status = "done" ->
            << "Analysis completed", PyStr(result.answer), result.final_explanation >>
      [] result.status = "max_iters_reached" ->
            << "Maximum iterations reached", result.last_explanation >>
      [] OTHER -> << "Unknown result" >>

\* run_analyze_control never reaches "self.last_result = result" when its
\* await raises CancelledError; _worker's handler only clears the label.
ResultAfterCancel(last, f) == last

\* ----------------------------------------------------------- the actions
Questions == {"q1"}
NoInput == [question |-> None]
NoLabel == << >>
NoCamera == [translate |-> Absent, rotateXYZ |-> Absent]
NoPrior == [last_result |-> NoResult, last_input |-> NoInput]

\* analyze_control returned `result` to run_analyze_control, which stores and
\* shows it; then the finally clause of _worker drops the handle.
Return(r, f, result) ==
    /\ run' = [run EXCEPT ![r] = [f EXCEPT !.pc = "returned"]]
    /\ ret' = [ret EXCEPT ![r] = result]
    /\ last_result' = result
    /\ last_input' = [question |-> f.question]
    /\ label' = format_result(result)
    /\ ai_question' = ""
    /\ task' = 0

\* An exception leaves analyze_control, run_analyze_control and _worker, whose
\* finally clause drops the handle.
Raise(r, f) ==
    /\ run' = [run EXCEPT ![r] = [f EXCEPT !.pc = "raised"]]
    /\ ret' = [ret EXCEPT ![r] = Raised]
    /\ task' = 0
    /\ UNCHANGED << last_result, last_input, ai_question >>

Running_handle == task # 0

\* "if self._task and not self._task.done()"
Running == task # 0 /\ ~TaskDone(task)

\* The task objects no longer referenced (or never made): self._task is about
\* to be overwritten, so only a suspended _stop keeps an ended task alive.
\* They are collected when the next task is made.
FreeSlots == { r \in Runs : run[r].pc = "none" \/ (TaskDone(r) /\ stop_await[r] = 0) }
NewTask == CHOOSE r \in FreeSlots : \A q \in FreeSlots : r <= q

\* Apply IA button: rejected while a task runs.
ApplyRejected ==
    /\ Running
    /\ label' = << "Already running. Stop first." >>
    /\ UNCHANGED << cam, run, task, last_result, last_input, ai_question, stop_ready,
                    stop_await, calls_left, hist, cnt, ret, cam_at_call, prior,
                    rotate_type, last_call, ai, used >>

\* Apply IA button: ensure_future(_worker()).
ApplyStarts ==
    /\ ~Running
    /\ FreeSlots # {}
    /\ LET r == NewTask
       IN  /\ run' = [q \in Runs |-> IF q = r THEN [IdleRun EXCEPT !.pc = "ready"]
                                     ELSE IF q \in FreeSlots THEN IdleRun ELSE run[q]]
           /\ task' = r
           /\ hist' = [q \in Runs |-> IF q \in FreeSlots THEN << >> ELSE hist[q]]
           /\ cnt' = [q \in Runs |-> IF q \in FreeSlots THEN NoCount ELSE cnt[q]]
           /\ ret' = [q \in Runs |-> IF q \in FreeSlots THEN NoResult ELSE ret[q]]
           /\ cam_at_call' = [q \in Runs |-> IF q \in FreeSlots THEN NoCamera ELSE cam_at_call[q]]
           /\ prior' = [q \in Runs |-> IF q \in FreeSlots THEN NoPrior ELSE prior[q]]
           /\ used' = [q \in Runs |-> IF q \in FreeSlots THEN {} ELSE used[q]]
    /\ UNCHANGED << cam, label, last_result, last_input, ai_question, stop_ready,
                    stop_await, calls_left, rotate_type, last_call, ai >>

click_analyze_control == ApplyRejected \/ ApplyStarts

RECURSIVE SumTo(_, _)
SumTo(f, n) == IF n = 0 THEN 0 ELSE f[n] + SumTo(f, n - 1)
PendingStops == stop_ready + SumTo(stop_await, MaxRuns)

\* Stop button: click_stop schedules _stop.
click_stop ==
    /\ PendingStops < MaxStops
    /\ stop_ready' = stop_ready + 1
    /\ UNCHANGED << cam, run, task, label, last_result, last_input, ai_question,
                    stop_await, calls_left, hist, cnt, ret, cam_at_call, prior,
                    rotate_type, last_call, ai, used >>

\* The user types a question into the empty field.
TypeQuestion ==
    /\ ai_question = ""
    /\ ai_question' \in Questions
    /\ UNCHANGED << cam, run, task, label, last_result, last_input,
                    stop_ready, stop_await, calls_left, hist, cnt, ret, cam_at_call, prior,
                    rotate_type, last_call, ai, used >>

\* _stop with a task running: cancel it, up to "await self._task".
StopCancels ==
    /\ stop_ready > 0
    /\ Running
    /\ stop_ready' = stop_ready - 1
    /\ run' = [run EXCEPT ![task].must_cancel = TRUE]
    /\ stop_await' = [stop_await EXCEPT ![task] = @ + 1]
    /\ UNCHANGED << cam, task, label, last_result, last_input, ai_question,
                    calls_left, hist, cnt, ret, cam_at_call, prior,
                    rotate_type, last_call, ai, used >>

\* _stop with nothing running: it only clears the label.
StopIdle ==
    /\ stop_ready > 0
    /\ ~Running
    /\ stop_ready' = stop_ready - 1
    /\ label' = NoLabel
    /\ UNCHANGED << cam, run, task, last_result, last_input, ai_question,
                    stop_await, calls_left, hist, cnt, ret, cam_at_call, prior,
                    rotate_type, last_call, ai, used >>

\* _stop resumed after the task it awaits has ended.
StopResume(r) ==
    /\ stop_await[r] > 0
    /\ TaskDone(r)
    /\ stop_await' = [stop_await EXCEPT ![r] = @ - 1]
    /\ task' = 0
    /\ label' = NoLabel
    /\ UNCHANGED << cam, run, last_result, last_input, ai_question,
                    stop_ready, calls_left, hist, cnt, ret, cam_at_call, prior,
                    rotate_type, last_call, ai, used >>

\* First step of a task: _worker, run_analyze_control and analyze_control up
\* to the first save_async.
WorkerStart(r) ==
    /\ run[r].pc = "ready"
    /\ ~run[r].must_cancel
    /\ prior' = [prior EXCEPT ![r] = [last_result |-> last_result, last_input |-> last_input]]
    /\ UNCHANGED << cam, stop_ready, stop_await, calls_left, hist, cam_at_call,
                    rotate_type, last_call, ai, used >>
    /\ LET question == ai_question
           f == [run[r] EXCEPT !.question = question]
       IN  IF question = ""
           THEN /\ label' = << "Please enter a question." >>
                /\ run' = [run EXCEPT ![r] = [f EXCEPT !.pc = "noquestion"]]
                /\ task' = 0
                /\ UNCHANGED << last_result, last_input, ai_question, cnt, ret >>
           ELSE /\ label' = << "Analyzing..." >>
                /\ IF GetInitialRaises(cam)
                   THEN Raise(r, f) /\ UNCHANGED cnt
                   ELSE /\ run' = [run EXCEPT ![r] = EnterLoop(f, cam)]
                        /\ cnt' = [cnt EXCEPT ![r].captures = @ + 1]
                        /\ UNCHANGED << task, last_result, last_input, ai_question, ret >>

\* "self.ai.call_vision_llm_async(...)": the attribute is read when the call
\* of an iteration is made.
ClientOfCall(before, now) == before \cup {now}

\* save_async returned: no image, or the path of the frame, with which the
\* model call is made.
CaptureReturn(r) ==
    /\ run[r].pc = "capture"
    /\ ~run[r].must_cancel
    /\ UNCHANGED << cam, stop_ready, stop_await, calls_left, hist, prior,
                    rotate_type, last_call, ai >>
    /\ \E ok \in BOOLEAN :
          LET img_path == IF ok THEN ImagePath(r, run[r].i) ELSE NoImage
              f == [run[r] EXCEPT !.img_path = img_path]
          IN  IF img_path = NoImage
              THEN Return(r, f, ErrorResult(f)) /\ UNCHANGED << cnt, cam_at_call, used >>
              ELSE /\ run' = [run EXCEPT ![r] = [f EXCEPT !.pc = "model"]]
                   /\ cnt' = [cnt EXCEPT ![r].calls = @ + 1]
                   /\ used' = [used EXCEPT ![r] = ClientOfCall(@, ai)]
                   /\ cam_at_call' = [cam_at_call EXCEPT ![r] = cam]
                   /\ UNCHANGED << task, label, last_result, last_input, ai_question, ret >>

\* call_vision_llm_async returned a validated command.
ModelReturn(r) ==
    /\ run[r].pc = "model"
    /\ ~run[r].must_cancel
    /\ calls_left > 0
    /\ calls_left' = calls_left - 1
    /\ UNCHANGED << stop_ready, stop_await, cam_at_call, prior,
                    rotate_type, last_call, ai, used >>
    /\ \E resp \in Commands :
          /\ hist' = [hist EXCEPT ![r] = Append(@, resp)]
          /\ cam' = CameraAfterResponse(cam, resp)
          /\ IF Terminal(resp)
             THEN Return(r, run[r], DoneResult(run[r], resp)) /\ UNCHANGED cnt
             ELSE /\ run' = [run EXCEPT ![r] = Move(run[r], resp)]
                  /\ cnt' = [cnt EXCEPT ![r].deltas = @ + 1]
                  /\ UNCHANGED << task, label, last_result, last_input, ai_question, ret >>

\* call_vision_llm_async raised (validation or transport failure), or it
\* returned None and ai_response.model_dump_json() raised at line 132.
ModelRaise(r) ==
    /\ run[r].pc = "model"
    /\ ~run[r].must_cancel
    /\ calls_left > 0
    /\ calls_left' = calls_left - 1
    /\ cam' = CameraAfterRaise(cam, run[r])
    /\ Raise(r, run[r])
    /\ UNCHANGED << label, stop_ready, stop_await, hist, cnt, cam_at_call, prior,
                    rotate_type, last_call, ai, used >>

FrameTick_shielded(r) ==
    /\ run[r].pc = "settle"
    /\ UNCHANGED << cam, stop_ready, stop_await, calls_left, hist, cam_at_call, prior,
                    rotate_type, last_call, ai, used >>
    /\ LET f == [run[r] EXCEPT !.frames = @ + 1]
       IN  IF ~SettleDone(f.frames)
           THEN /\ run' = [run EXCEPT ![r] = f]
                /\ cnt' = [cnt EXCEPT ![r].waits = @ + 1]
                /\ UNCHANGED << task, label, last_result, last_input, ai_question, ret >>
           ELSE IF LoopContinues(f.i)
                THEN /\ run' = [run EXCEPT ![r] = [Remember(f) EXCEPT !.pc = "capture", !.i = @ + 1]]
                     /\ cnt' = [cnt EXCEPT ![r].waits = @ + 1, ![r].captures = @ + 1]
                     /\ UNCHANGED << task, label, last_result, last_input, ai_question, ret >>
                ELSE /\ Return(r, Remember(f), MaxItersResult(Remember(f)))
                     /\ cnt' = [cnt EXCEPT ![r].waits = @ + 1]

\* One next_update_async of _wait_frames returned; after the last one the
\* loop goes on to the next capture or ends.
FrameTick(r) ==
    /\ run[r].pc = "settle"
    /\ ~run[r].must_cancel
    /\ UNCHANGED << cam, stop_ready, stop_await, calls_left, hist, cam_at_call, prior,
                    rotate_type, last_call, ai, used >>
    /\ LET f == [run[r] EXCEPT !.frames = @ + 1]
       IN  IF ~SettleDone(f.frames)
           THEN /\ run' = [run EXCEPT ![r] = f]
                /\ cnt' = [cnt EXCEPT ![r].waits = @ + 1]
                /\ UNCHANGED << task, label, last_result, last_input, ai_question, ret >>
           ELSE IF LoopContinues(f.i)
                THEN /\ run' = [run EXCEPT ![r] = [Remember(f) EXCEPT !.pc = "capture", !.i = @ + 1]]
                     /\ cnt' = [cnt EXCEPT ![r].waits = @ + 1, ![r].captures = @ + 1]
                     /\ UNCHANGED << task, label, last_result, last_input, ai_question, ret >>
                ELSE /\ Return(r, Remember(f), MaxItersResult(Remember(f)))
                     /\ cnt' = [cnt EXCEPT ![r].waits = @ + 1]

\* The task resumes after task.cancel(): CancelledError is thrown at its
\* await.  A task that never started does not enter _worker at all.
Cancelled(r) ==
    /\ run[r].must_cancel
    /\ run[r].pc \in Active \cup {"ready"}
    /\ run' = [run EXCEPT ![r].pc = "cancelled"]
    /\ UNCHANGED << cam, last_input, ai_question, stop_ready,
                    stop_await, calls_left, hist, cnt, cam_at_call, prior,
                    rotate_type, last_call, ai, used >>
    /\ IF run[r].pc = "ready"
       THEN UNCHANGED << task, label, ret, last_result >>
       ELSE /\ label' = NoLabel
            /\ task' = 0
            /\ ret' = [ret EXCEPT ![r] = CancelledError]
            /\ last_result' = ResultAfterCancel(last_result, run[r])

\* --------------------------------------------------------- specifications
\* The extension after on_startup.
Init ==
    /\ cam \in CamInits
    /\ run = [r \in Runs |-> IdleRun]
    /\ task = 0
    /\ label = NoLabel
    /\ last_result = NoResult
    /\ last_input = NoInput
    /\ ai_question = ""
    /\ stop_ready = 0
    /\ stop_await = [r \in Runs |-> 0]
    /\ calls_left = MaxCalls
    /\ hist = [r \in Runs |-> << >>]
    /\ cnt = [r \in Runs |-> NoCount]
    /\ ret = [r \in Runs |-> NoResult]
    /\ cam_at_call = [r \in Runs |-> NoCamera]
    /\ prior = [r \in Runs |-> NoPrior]
    /\ ai = "AIControlBaseAPI"
    /\ used = [r \in Runs |-> {}]
    /\ rotate_type = TypeOfRotate(cam)
    /\ last_call = NoCall

Next ==
    \/ ApplyRejected
    \/ ApplyStarts
    \/ click_stop
    \/ TypeQuestion
    \/ StopCancels
    \/ StopIdle
    \/ \E r \in Runs : StopResume(r)
    \/ \E r \in Runs : WorkerStart(r)
    \/ \E r \in Runs : CaptureReturn(r)
    \/ \E r \in Runs : ModelReturn(r)
    \/ \E r \in Runs : ModelRaise(r)
    \/ \E r \in Runs : FrameTick(r)
    \/ \E r \in Runs : Cancelled(r)

Spec == Init /\ [][Next]_vars

\* One analyze_control run on its own: the state after the first Apply click
\* on a typed question, and the steps of that task alone.
InitLoop ==
    /\ cam \in CamInits
    /\ run = [r \in Runs |-> IF r = 1 THEN [IdleRun EXCEPT !.pc = "ready"] ELSE IdleRun]
    /\ task = 1
    /\ label = NoLabel
    /\ last_result = NoResult
    /\ last_input = NoInput
    /\ ai_question \in Questions
    /\ stop_ready = 0
    /\ stop_await = [r \in Runs |-> 0]
    /\ calls_left = max_iters
    /\ hist = [r \in Runs |-> << >>]
    /\ cnt = [r \in Runs |-> NoCount]
    /\ ret = [r \in Runs |-> NoResult]
    /\ cam_at_call = [r \in Runs |-> NoCamera]
    /\ prior = [r \in Runs |-> NoPrior]
    /\ ai = "AIControlBaseAPI"
    /\ used = [r \in Runs |-> {}]
    /\ rotate_type = TypeOfRotate(cam)
    /\ last_call = NoCall

NextLoop ==
    \/ \E r \in Runs : WorkerStart(r)
    \/ \E r \in Runs : CaptureReturn(r)
    \/ \E r \in Runs : ModelReturn(r)
    \/ \E r \in Runs : ModelRaise(r)
    \/ \E r \in Runs : FrameTick(r)

SpecLoop == InitLoop /\ [][NextLoop]_vars

\* ------------------------------------------------- CameraControl, directly
\* What a float3 attribute holds of a double: the nearest value of the
\* coarser grid.  The fixed-point values stand for doubles and the whole
\* numbers among them for the doubles that are also floats.
Single(v) == ((2 * v + Scale) \div (2 * Scale)) * Scale

\* t_attr.Set / r_attr.Set of a Gf.Vec3d on an attribute of the given type.
Store(type, v) == IF type = "float3" THEN [j \in 1..3 |-> Single(v[j])] ELSE v

\* json.dumps writes each float with repr (sign, integer digits, fraction
\* digits) and json.loads / float() read it back.
Repr(v) == [neg |-> v < 0, whole |-> Abs(v) \div Scale, frac |-> Abs(v) % Scale]
Float_unsigned(t) == t.whole * Scale + t.frac
Float(t) == (IF t.neg THEN -1 ELSE 1) * (t.whole * Scale + t.frac)
json_dumps(pose) ==
    [translation |-> [j \in 1..3 |-> Repr(pose.translation[j])],
     rotation |-> [j \in 1..3 |-> Repr(pose.rotation[j])]]
json_loads(text) ==
    [translation |-> [j \in 1..3 |-> Float(text.translation[j])],
     rotation |-> [j \in 1..3 |-> Float(text.rotation[j])]]

\* cam_xf.AddRotateXYZOp() makes a float3 attribute (the default precision
\* of a rotate op); an attribute that exists keeps its type.
RotateTypeAfterReset(type) == IF type = "none" THEN "float3" ELSE type

reset_initial_camera_position(c, type, initial_cam_parameters) ==
    LET cam_data == json_loads(initial_cam_parameters)
    IN  [translate |-> cam_data.translation,
         rotateXYZ |-> Store(RotateTypeAfterReset(type), cam_data.rotation)]

\* The poses with an axis-aligned rotation, the ones Cos and Sin cover.
Aligned(c) ==
    IF c.rotateXYZ = Absent THEN TRUE
    ELSE \A j \in 1..3 : c.rotateXYZ[j] % (90 * Scale) = 0

\* The calls whose world vector Cos and Sin give exactly: any delta on an
\* axis-aligned pose, and a move along the camera's x axis when only the
\* rotation about x is not axis-aligned (that rotation keeps the x axis, so
\* its cosine and sine are multiplied by zero; the angle is taken less than
\* a degree off the grid, where Cos and Sin are defined).
MatrixKnown(c, p) ==
    IF Aligned(c) THEN TRUE
    ELSE /\ p.forward = 0 /\ p.upward = 0
         /\ Turn(c.rotateXYZ[1]) % 90 = 0
         /\ c.rotateXYZ[2] % (90 * Scale) = 0
         /\ c.rotateXYZ[3] % (90 * Scale) = 0

\* Number of direct calls in one behaviour of SpecCam.
MaxCamCalls == 3

Delta(f, u, r, p, y) == Command(None, FALSE, "e1", f, u, r, p, y)
Negated(d) == Delta(-d.forward, -d.upward, -d.right, -d.pitch, -d.yaw)
BaseDeltas ==
    { Delta(0, 0, 0, 0, 0), Delta(3, 0, -4, 0, 0), Delta(0, 0, 0, -90, 90),
      Delta(0, 0, 4, 0, 90), Delta(0, 1, 0, 90, 0), Delta(0, 0, 2, 0, 0) }
CamDeltas == BaseDeltas \cup { Negated(d) : d \in BaseDeltas }

\* The cameras a behaviour of SpecCam starts from: each attribute missing,
\* or holding whole or fractional values.
CamTranslates == { Absent, <<0, 0, 0>>, <<Scale + 1, -1, 0>> }
CamRotates ==
    { <<Absent, "none">>, <<Absent, "double3">>, <<<<0, 0, 0>>, "double3">>,
      <<<<90 * Scale, 0, 180 * Scale>>, "double3">>,
      <<<<Scale + 1, 1, 0>>, "double3">>, <<<<90 * Scale + 1, 0, 0>>, "double3">>,
      <<<<90 * Scale, 0, 0>>, "float3">> }
ResetPoses ==
    { [translation |-> <<0, 0, 0>>, rotation |-> <<0, 0, 0>>],
      [translation |-> <<Scale + 1, -1, 0>>, rotation |-> <<90 * Scale, 0, 180 * Scale>>],
      [translation |-> <<-1, 2 * Scale, 0>>, rotation |-> <<Scale + 1, -1, 0>>] }

ExtensionVars ==
    << run, task, label, last_result, last_input, ai_question, stop_ready,
       stop_await, calls_left, hist, cnt, ret, cam_at_call, prior, ai, used >>

\* The call before the one being made: its name, argument and the camera it found.
PrevCall ==
    IF last_call.op \in {"apply", "reset"}
    THEN << last_call.op, last_call.arg, last_call.before >>
    ELSE << last_call.op >>

\* camera.apply_translate_and_rotate_ai(p)
CallApply ==
    /\ last_call.n < MaxCamCalls
    /\ \E p \in CamDeltas :
          /\ MovesTranslation(p) => MatrixKnown(cam, p)
          /\ cam' = apply_translate_and_rotate_ai(cam, p)
          /\ last_call' = [n |-> last_call.n + 1, op |-> "apply", arg |-> p,
                           before |-> cam, prev |-> PrevCall]
    /\ UNCHANGED << rotate_type, ExtensionVars >>

\* camera.reset_initial_camera_position(json.dumps(pose))
CallReset ==
    /\ last_call.n < MaxCamCalls
    /\ \E pose \in ResetPoses :
          /\ cam' = reset_initial_camera_position(cam, rotate_type, json_dumps(pose))
          /\ last_call' = [n |-> last_call.n + 1, op |-> "reset", arg |-> pose,
                           before |-> cam, prev |-> PrevCall]
    /\ rotate_type' = RotateTypeAfterReset(rotate_type)
    /\ UNCHANGED ExtensionVars

\* camera.get_initial_camera_position()
CallGet ==
    /\ last_call.n < MaxCamCalls
    /\ last_call' = [n |-> last_call.n + 1, op |-> "get", before |-> cam,
                     prev |-> PrevCall,
                     result |-> IF GetInitialRaises(cam) THEN Raised
                                ELSE InitialCamParameters(cam)]
    /\ UNCHANGED << cam, rotate_type, ExtensionVars >>

InitCam ==
    /\ \E t \in CamTranslates, rt \in CamRotates :
          /\ cam = [translate |-> t, rotateXYZ |-> rt[1]]
          /\ rotate_type = rt[2]
    /\ last_call = NoCall
    /\ run = [r \in Runs |-> IdleRun]
    /\ task = 0
    /\ label = NoLabel
    /\ last_result = NoResult
    /\ last_input = NoInput
    /\ ai_question = ""
    /\ stop_ready = 0
    /\ stop_await = [r \in Runs |-> 0]
    /\ calls_left = MaxCalls
    /\ hist = [r \in Runs |-> << >>]
    /\ cnt = [r \in Runs |-> NoCount]
    /\ ret = [r \in Runs |-> NoResult]
    /\ cam_at_call = [r \in Runs |-> NoCamera]
    /\ prior = [r \in Runs |-> NoPrior]
    /\ ai = "AIControlBaseAPI"
    /\ used = [r \in Runs |-> {}]

NextCam == CallApply \/ CallReset \/ CallGet

SpecCam == InitCam /\ [][NextCam]_vars

\* ------------------------------------------------------------- properties
\* What the replies of a run say, computed from the log of replies alone.
RECURSIVE SumOver(_, _)
SumOver(h, n) == IF n = 0 THEN 0 ELSE SumOver(h, n - 1) + h[n]
NotDone(h) == SelectSeq(h, LAMBDA c : ~c.done)
RotationOf(c) == (IF c.pitch < 0 THEN -c.pitch ELSE c.pitch) + (IF c.yaw < 0 THEN -c.yaw ELSE c.yaw)
TotalRotationOf(h) == SumOver([n \in 1..Len(h) |-> RotationOf(h[n])], Len(h))
NormOf(c) == Sqrt(c.forward * c.forward + c.upward * c.upward + c.right * c.right)
TotalTranslationOf(h) == SumOver([n \in 1..Len(h) |-> NormOf(h[n])], Len(h))
Front(h) == SubSeq(h, 1, Len(h) - 1)
IsRecord(x) == x.status \in {"done", "error", "max_iters_reached"}

\* C1: a done=true reply is not applied to the camera (the pose is the one the
\* camera had when that iteration's model call was issued, one delta per
\* earlier iteration) and its deltas are in neither total, whatever they are.
C1_DoneNotApplied ==
    \A r \in Runs :
        ret[r].status = "done" =>
            /\ cam = cam_at_call[r]
            /\ cnt[r].deltas = Len(hist[r]) - 1
            /\ ret[r].total_rotation = TotalRotationOf(Front(hist[r]))
            /\ ret[r].total_translation = TotalTranslationOf(Front(hist[r]))

C1_Witness ==
    \E r \in Runs :
        /\ ret[r].status = "done"
        /\ Len(hist[r]) >= 2
        /\ hist[r][Len(hist[r])].forward # 0
        /\ hist[r][Len(hist[r])].yaw # 0

\* C2: a done=true reply in iteration i ends the run with the record "done"
\* carrying that reply's answer (None included) and explanation unchanged,
\* and iterations = i.
C2_DoneRecord ==
    \A r \in Runs :
        /\ ret[r].status = "done" =>
              LET resp == hist[r][Len(hist[r])]
              IN  /\ resp.done
                  /\ ret[r].answer = resp.answer
                  /\ ret[r].final_explanation = resp.explanation
                  /\ ret[r].iterations = Len(hist[r])
                  /\ ret[r].iterations \in 1..max_iters
        /\ (hist[r] # << >> /\ hist[r][Len(hist[r])].done) => ret[r].status = "done"

C2_Witness ==
    \E r \in Runs :
        /\ ret[r].status = "done"
        /\ ret[r].answer = None
        /\ ret[r].iterations = max_iters

\* C3: ten captures and ten done=false replies end the run with the record
\* "max_iters_reached", iterations = 10 and the explanation of the tenth reply.
C3_Exhausted ==
    \A r \in Runs :
        /\ ret[r].status = "max_iters_reached" =>
              /\ ret[r].iterations = max_iters
              /\ Len(hist[r]) = max_iters
              /\ \A n \in 1..Len(hist[r]) : ~hist[r][n].done
              /\ ret[r].last_explanation = hist[r][max_iters].explanation
        /\ (Len(hist[r]) = max_iters /\ ~hist[r][max_iters].done) =>
              \/ run[r].pc = "settle"
              \/ run[r].pc = "returned" /\ ret[r].status = "max_iters_reached"

C3_Witness ==
    \E r \in Runs :
        /\ ret[r].status = "max_iters_reached"
        /\ hist[r][max_iters].explanation # hist[r][max_iters - 1].explanation
        /\ hist[r][max_iters].explanation # hist[r][1].explanation

\* C4: a failed capture in iteration i ends the run in that iteration with
\* error / screenshot_failed and iterations = i: one capture per iteration
\* (no retry), i - 1 model calls, i - 1 deltas, totals of iterations 1..i-1.
C4_CaptureFailed ==
    \A r \in Runs :
        ret[r].status = "error" =>
            /\ ret[r].reason = "screenshot_failed"
            /\ ret[r].iterations = cnt[r].captures
            /\ cnt[r].calls = ret[r].iterations - 1
            /\ Len(hist[r]) = ret[r].iterations - 1
            /\ cnt[r].deltas = ret[r].iterations - 1
            /\ ret[r].total_rotation = TotalRotationOf(hist[r])
            /\ ret[r].total_translation = TotalTranslationOf(hist[r])

C4_Witness ==
    \E r \in Runs :
        /\ ret[r].status = "error"
        /\ ret[r].iterations = 3
        /\ ret[r].total_rotation > 0
        /\ ret[r].total_translation > 0

\* C5: at most one analyze_control run is active at any time, under every
\* interleaving of Apply, Stop and task completion.
C5_SingleFlight == Cardinality({ r \in Runs : run[r].pc \in Active }) <= 1

\* C6: when a started run ends cancelled, last_result and last_input hold the
\* values they had before that run started.
C6_KeepsPrior ==
    [][\A r \in Runs :
          (run[r].pc \in Active /\ run'[r].pc = "cancelled") =>
              /\ last_result' = prior[r].last_result
              /\ last_input' = prior[r].last_input]_vars

\* What does hold of C6: the step that ends a cancelled run writes neither
\* last_result nor last_input and shows no formatted result (a started run
\* clears the label, a run cancelled before its first step leaves it alone),
\* and the caller of analyze_control observes CancelledError and no record.
C6_CancelledNoResult ==
    [][\A r \in Runs :
          (run[r].must_cancel /\ ~TaskDone(r) /\ run'[r] # run[r]) =>
              /\ run'[r].pc = "cancelled"
              /\ last_result' = last_result
              /\ last_input' = last_input
              /\ label' = IF run[r].pc \in Active THEN NoLabel ELSE label
              /\ ret'[r] = IF run[r].pc \in Active THEN CancelledError ELSE NoResult]_vars

C6_CancelledAfterDelta ==
    \E r \in Runs :
        /\ ret[r] = CancelledError
        /\ run[r].pc = "cancelled"
        /\ cnt[r].deltas >= 1
        /\ label = NoLabel

\* C7: when the client call of iteration i raises, the exception leaves
\* analyze_control: the call is not retried (i calls for i - 1 replies), no
\* later iteration runs (i captures), no record is returned, and the camera
\* is the initial pose with the deltas of iterations 1..i-1 applied.
RECURSIVE ApplyAll(_, _, _)
ApplyAll(c, h, n) ==
    IF n = 0 THEN c ELSE apply_translate_and_rotate_ai(ApplyAll(c, h, n - 1), h[n])
InitialCamera(r) ==
    [translate |-> run[r].initial_cam_parameters.translation,
     rotateXYZ |-> run[r].initial_cam_parameters.rotation]
C7_ClientRaisePropagates ==
    \A r \in Runs :
        (ret[r] = Raised /\ cnt[r].calls >= 1) =>
            /\ run[r].pc = "raised"
            /\ cnt[r].calls = Len(hist[r]) + 1
            /\ cnt[r].captures = cnt[r].calls
            /\ cnt[r].deltas = Len(hist[r])
            /\ \A n \in 1..Len(hist[r]) : ~hist[r][n].done
            /\ cam = ApplyAll(InitialCamera(r), hist[r], Len(hist[r]))
            /\ last_result = NoResult

C7_Witness ==
    \E r \in Runs :
        /\ ret[r] = Raised
        /\ Len(hist[r]) >= 2
        /\ cam # InitialCamera(r)

\* C8: the events of a run are strictly ordered: at every suspension point of
\* iteration i the run has made i captures; the model call of iteration i is
\* issued after capture i; a delta is applied only for a done=false reply;
\* the 12 frame waits of a delta are complete before the next capture starts.
C8_StrictOrder ==
    \A r \in Runs :
        LET f == run[r]
            c == cnt[r]
        IN  /\ f.pc = "capture" =>
                  /\ c.captures = f.i /\ c.calls = f.i - 1
                  /\ c.deltas = f.i - 1 /\ c.waits = SettleFrames * (f.i - 1)
            /\ f.pc = "model" =>
                  /\ f.img_path # NoImage
                  /\ c.captures = f.i /\ c.calls = f.i
                  /\ c.deltas = f.i - 1 /\ c.waits = SettleFrames * (f.i - 1)
            /\ f.pc = "settle" =>
                  /\ c.captures = f.i /\ c.calls = f.i /\ c.deltas = f.i
                  /\ c.waits = SettleFrames * (f.i - 1) + f.frames
                  /\ f.frames < SettleFrames
            /\ c.deltas = Len(NotDone(hist[r]))
            /\ c.calls <= c.captures
            /\ c.waits < SettleFrames * c.deltas => c.captures = c.deltas

C8_Witness ==
    \E r \in Runs :
        /\ run[r].pc = "capture"
        /\ run[r].i = 3
        /\ cnt[r].waits = 2 * SettleFrames

\* C9: a run whose awaited capture, model call and frame waits all returned
\* ends with one of the three result records after at most 10 captures, 10
\* model calls and 10 deltas.
C9_EndsWithRecord ==
    \A r \in Runs :
        (run[r].pc \in {"returned", "raised"} /\ cnt[r].calls = Len(hist[r])) =>
            /\ IsRecord(ret[r])
            /\ cnt[r].captures <= max_iters
            /\ cnt[r].calls <= max_iters
            /\ cnt[r].deltas <= max_iters

\* What does hold of C9: a run that got past the read of the initial pose
\* ends with a record within the budget, and under fair scheduling of the
\* task it does end.
C9_RecordOnceInLoop ==
    \A r \in Runs :
        (run[r].pc \in {"returned", "raised"} /\ cnt[r].calls = Len(hist[r])
            /\ cnt[r].captures >= 1) =>
            /\ IsRecord(ret[r])
            /\ cnt[r].captures <= max_iters
            /\ cnt[r].calls <= max_iters
            /\ cnt[r].deltas <= max_iters
SpecLoopFair == SpecLoop /\ WF_vars(NextLoop)
C9_RunEnds == <>(run[1].pc \in Ended)

\* C10: total_rotation of every record is the sum of |pitch| + |yaw| over the
\* done=false replies of the run, and 0 when the first reply is done=true or
\* the first capture fails.
C10_TotalRotation ==
    \A r \in Runs :
        IsRecord(ret[r]) =>
            /\ ret[r].total_rotation = TotalRotationOf(NotDone(hist[r]))
            /\ (hist[r] = << >> \/ hist[r][1].done) => ret[r].total_rotation = 0

C10_Witness ==
    \E r \in Runs :
        /\ ret[r].status = "done"
        /\ ret[r].total_rotation = 360
        /\ Len(hist[r]) = 4
        /\ hist[r][4].yaw # 0

\* C11: total_translation of every record is the sum of the Euclidean norms
\* sqrt(forward^2 + upward^2 + right^2) of the done=false replies of the run
\* (each norm n, in units of 1/Milli, is the root of the sum of squares), and
\* 0 when the first reply is done=true.
SquaresOf(c) == c.forward * c.forward + c.upward * c.upward + c.right * c.right
C11_TotalTranslation ==
    \A r \in Runs :
        IsRecord(ret[r]) =>
            /\ ret[r].total_translation = TotalTranslationOf(NotDone(hist[r]))
            /\ \A n \in 1..Len(hist[r]) :
                  LET d == NormOf(hist[r][n])
                  IN  /\ d * d <= SquaresOf(hist[r][n]) * Milli * Milli
                      /\ (d + 1) * (d + 1) > SquaresOf(hist[r][n]) * Milli * Milli
            /\ (hist[r] # << >> /\ hist[r][1].done) => ret[r].total_translation = 0

C11_Witness ==
    \E r \in Runs :
        /\ ret[r].status = "done"
        /\ ret[r].total_translation = 11 * Milli
        /\ Len(hist[r]) = 4
        /\ hist[r][4].forward # 0

\* C12: within one run total_translation and total_rotation never decrease
\* from one step to the next, whatever the signs of the deltas.
C12_TotalsMonotonic ==
    [][\A r \in Runs :
          /\ run'[r].total_translation >= run[r].total_translation
          /\ run'[r].total_rotation >= run[r].total_rotation]_vars

C12_Witness ==
    \E r \in Runs :
        /\ run[r].pc = "capture"
        /\ run[r].i = 3
        /\ hist[r][1].right < 0
        /\ hist[r][2].pitch < 0
        /\ run[r].total_translation = 6 * Milli
        /\ run[r].total_rotation = 180

\* C13: initial_cam_parameters is the camera's translate and rotateXYZ read
\* once, in the first step of the run, before the first capture returns and
\* before any delta; no later step changes it, and the record the run returns
\* (done, screenshot_failed or max_iters_reached) carries that value.
PoseOf(c) == [translation |-> c.translate, rotation |-> c.rotateXYZ]
C13_InitialPoseOnce ==
    [][\A r \in Runs :
          /\ (run[r].pc = "ready" /\ run'[r].pc = "capture") =>
                /\ run'[r].initial_cam_parameters = PoseOf(cam)
                /\ cam' = cam
                /\ cnt[r].deltas = 0
          /\ (run[r].pc \in Active /\ run'[r] # run[r]) =>
                run'[r].initial_cam_parameters = run[r].initial_cam_parameters
          /\ (IsRecord(ret'[r]) /\ ~IsRecord(ret[r])) =>
                ret'[r].initial_cam_parameters = run[r].initial_cam_parameters]_vars

C13_Witness ==
    \E r \in Runs :
        /\ ret[r].status = "max_iters_reached"
        /\ ret[r].initial_cam_parameters.translation = <<Scale + 1, -1, 0>>
        /\ PoseOf(cam) # ret[r].initial_cam_parameters

\* The direct call just made, if the step made one.
Applied(d) == last_call'.n # last_call.n /\ last_call'.op = "apply" /\ last_call'.arg = d

\* C14: apply_translate_and_rotate_ai with forward = upward = right = pitch =
\* yaw = 0 writes neither attribute: translate and rotateXYZ keep exactly the
\* values, fractional ones included, or the absence they had.
C14_ZeroIsNoOp ==
    [][Applied(Delta(0, 0, 0, 0, 0)) => (cam' = cam /\ rotate_type' = rotate_type)]_vars

C14_Witness ==
    /\ last_call.op = "apply"
    /\ last_call.arg = Delta(0, 0, 0, 0, 0)
    /\ last_call.before.translate = <<Scale + 1, -1, 0>>
    /\ last_call.before.rotateXYZ = Absent

\* The step applies the inverse of the delta applied by the call before it.
AppliedInverse ==
    /\ last_call'.n # last_call.n
    /\ last_call'.op = "apply" /\ last_call.op = "apply"
    /\ last_call'.arg = Negated(last_call.arg)
Whole(v) == IF v >= 0 THEN v - (v % Scale) ELSE -((-v) - ((-v) % Scale))
\* a is within one unit, on each axis, of the integer-truncated b.
\* (a missing attribute counts as the zero vector it is created from).
NearWhole(a, b) ==
    IF a = Absent THEN b = Absent
    ELSE LET z == IF b = Absent THEN <<0, 0, 0>> ELSE b
         IN  \A j \in 1..3 : a[j] - Whole(z[j]) <= Scale /\ Whole(z[j]) - a[j] <= Scale

\* C15: applying a delta and then the delta with all five fields negated
\* returns translation and rotation to the integer-truncated pose before the
\* delta, within one unit on each axis, for every delta and pose.
C15_InverseReturns ==
    [][AppliedInverse =>
          /\ NearWhole(cam'.translate, last_call.before.translate)
          /\ NearWhole(cam'.rotateXYZ, last_call.before.rotateXYZ)]_vars

\* C15 amended: the rotation returns for every delta; the translation returns
\* when the delta does not both translate and rotate (or no rotateXYZ value
\* exists, so that the rotation is skipped).
Combined(d, c) ==
    /\ (d.forward # 0 \/ d.upward # 0 \/ d.right # 0)
    /\ (d.pitch # 0 \/ d.yaw # 0)
    /\ c.rotateXYZ # Absent
C15_InverseReturnsUncombined ==
    [][AppliedInverse =>
          /\ NearWhole(cam'.rotateXYZ, last_call.before.rotateXYZ)
          /\ ~Combined(last_call.arg, last_call.before) =>
                NearWhole(cam'.translate, last_call.before.translate)]_vars

C15_Witness ==
    /\ last_call.op = "apply"
    /\ last_call.arg = Delta(-3, 0, 4, 0, 0)
    /\ last_call.prev[1] = "apply"
    /\ last_call.prev[2] = Delta(3, 0, -4, 0, 0)
    /\ last_call.prev[3].translate = <<Scale + 1, -1, 0>>
    /\ last_call.prev[3].rotateXYZ = <<90 * Scale, 0, 180 * Scale>>
    /\ cam.translate = <<Scale, 0, 0>>
    /\ cam.translate # last_call.before.translate

\* C16: on a camera without a rotateXYZ value a call with non-zero pitch or
\* yaw leaves the rotation absent (no attribute is made) and still applies
\* the translation delta: translate, made from zero when it is missing,
\* becomes its truncated value plus (right, upward, -forward).
C16_RotationSkipped ==
    [][(/\ last_call'.n # last_call.n
        /\ last_call'.op = "apply"
        /\ (last_call'.arg.pitch # 0 \/ last_call'.arg.yaw # 0)
        /\ cam.rotateXYZ = Absent) =>
          LET d == last_call'.arg
              z == IF cam.translate = Absent THEN <<0, 0, 0>> ELSE cam.translate
          IN  /\ cam'.rotateXYZ = Absent
              /\ rotate_type' = rotate_type
              /\ IF d.forward = 0 /\ d.upward = 0 /\ d.right = 0
                 THEN cam'.translate = cam.translate
                 ELSE cam'.translate = << Whole(z[1]) + d.right * Scale,
                                          Whole(z[2]) + d.upward * Scale,
                                          Whole(z[3]) - d.forward * Scale >>]_vars

C16_Witness ==
    /\ last_call.op = "apply"
    /\ last_call.arg = Delta(0, 1, 0, 90, 0)
    /\ last_call.before = [translate |-> Absent, rotateXYZ |-> Absent]
    /\ cam = [translate |-> <<0, Scale, 0>>, rotateXYZ |-> Absent]
    /\ rotate_type = "none"

\* C17: a call with forward = upward = right = 0 leaves translate exactly as
\* it was, and a call with pitch = yaw = 0 leaves rotateXYZ exactly as it
\* was, fractional values and missing attributes included.
C17_Independent ==
    [][(last_call'.n # last_call.n /\ last_call'.op = "apply") =>
          LET d == last_call'.arg
          IN  /\ (d.forward = 0 /\ d.upward = 0 /\ d.right = 0) =>
                    cam'.translate = cam.translate
              /\ (d.pitch = 0 /\ d.yaw = 0) =>
                    (cam'.rotateXYZ = cam.rotateXYZ /\ rotate_type' = rotate_type)]_vars

C17_Witness ==
    /\ last_call.op = "apply"
    /\ last_call.arg = Delta(0, 0, 0, -90, 90)
    /\ last_call.prev[1] = "apply"
    /\ last_call.prev[2] = Delta(0, 0, 2, 0, 0)
    /\ last_call.prev[3] = [translate |-> <<Scale + 1, -1, 0>>, rotateXYZ |-> <<90 * Scale + 1, 0, 0>>]
    /\ last_call.before = [translate |-> <<3 * Scale, 0, 0>>, rotateXYZ |-> <<90 * Scale + 1, 0, 0>>]
    /\ cam = [translate |-> <<3 * Scale, 0, 0>>, rotateXYZ |-> <<0, 0, -90 * Scale>>]

\* The step reads the pose right after a reset wrote one.
GetAfterReset ==
    /\ last_call'.n # last_call.n
    /\ last_call'.op = "get" /\ last_call.op = "reset"

IsWhole(v) == v % Scale = 0
JInt(n) == [t |-> "int", spells |-> "", v |-> n]
JFloat(x) == [t |-> "float", spells |-> "", v |-> x]
JBool(b) == [t |-> "bool", spells |-> "", v |-> IF b THEN 1 ELSE 0]
JNull == [t |-> "null", spells |-> "", v |-> 0]
JDigits(n) == [t |-> "str", spells |-> "int", v |-> n]
JTruth(b) == [t |-> "str", spells |-> "bool", v |-> IF b THEN 1 ELSE 0]
JWords(i) == [t |-> "str", spells |-> "words", v |-> i]
Missing == [t |-> "missing", spells |-> "", v |-> 0]

Words == << "e1", "a1" >>
Text(x) ==
    CASE x.spells = "words" -> Words[x.v]
      [] x.spells = "int" -> ToString(x.v)
      [] x.spells = "bool" -> IF x.v = 1 THEN "true" ELSE "false"

\* The fields of AICameraParameters, and a key that is not one of them.
Fields == { "answer", "done", "explanation", "forward", "upward", "right", "pitch", "yaw" }
NumericFields == { "forward", "upward", "right", "pitch", "yaw" }
ExtraKey == "note"

ValidationError == [status |-> "exception", error |-> "ValidationError"]

\* What validation makes of one key: the value the field takes, or a refusal.
Valid(v) == [ok |-> TRUE, value |-> v]
Invalid == [ok |-> FALSE, value |-> 0]

\* A field of type int: an integer, a float without a fractional part, or a
\* string that spells an integer; a missing key takes the default 0.
IntField(x) ==
    CASE x.t = "missing" -> Valid(0)
      [] x.t = "int" -> Valid(x.v)
      [] x.t = "float" -> IF x.v % Scale = 0 THEN Valid(x.v \div Scale) ELSE Invalid
      [] x.t = "str" -> IF x.spells = "int" THEN Valid(x.v) ELSE Invalid
      [] x.t = "null" -> Invalid

\* done: bool = False
BoolField(x) ==
    CASE x.t = "missing" -> Valid(FALSE)
      [] x.t = "bool" -> Valid(x.v = 1)
      [] x.t = "int" -> IF x.v \in {0, 1} THEN Valid(x.v = 1) ELSE Invalid
      [] x.t = "str" -> IF x.spells = "bool" \/ (x.spells = "int" /\ x.v \in {0, 1})
                        THEN Valid(x.v = 1) ELSE Invalid
      [] x.t = "null" -> Invalid

\* explanation: str, the one field without a default.
StrField(x) == IF x.t = "str" THEN Valid(Text(x)) ELSE Invalid

\* answer: Optional[str] = None
OptionalStrField(x) ==
    IF x.t \in {"missing", "null"} THEN Valid(None)
    ELSE IF x.t = "str" THEN Valid(Text(x)) ELSE Invalid

\* What the class makes of each key of an object; a key outside the fields
\* is not looked at.
FieldValues(obj) ==
    [answer |-> OptionalStrField(obj.answer), done |-> BoolField(obj.done),
     explanation |-> StrField(obj.explanation),
     forward |-> IntField(obj.forward), upward |-> IntField(obj.upward),
     right |-> IntField(obj.right), pitch |-> IntField(obj.pitch),
     yaw |-> IntField(obj.yaw)]

\* The text a model reply carries: a JSON object, text that is not JSON, or
\* no text at all (the model refused).
Object(obj) == [kind |-> "object", obj |-> obj]
NotJson == [kind |-> "not_json"]
Refusal == [kind |-> "refusal"]

\* AICameraParameters.model_validate_json(raw): the command the object
\* validates to, or ValidationError (also for text that is not JSON and for
\* no text).
model_validate_json(raw) ==
    IF raw.kind # "object" THEN ValidationError
    ELSE IF \E k \in Fields : ~FieldValues(raw.obj)[k].ok
         THEN ValidationError
         ELSE LET f == FieldValues(raw.obj)
              IN  Command(f.answer.value, f.done.value, f.explanation.value,
                          f.forward.value, f.upward.value, f.right.value,
                          f.pitch.value, f.yaw.value)

\* The replies drawn: every key present, missing or of another JSON type,
\* with and without a key outside the fields.
AnswerValues == { Missing, JNull, JWords(2) }
DoneValues == { Missing, JBool(TRUE), JBool(FALSE), JTruth(TRUE), JInt(1) }
ExplanationValues == { Missing, JWords(1), JInt(7) }
ForwardValues ==
    { Missing, JInt(3), JDigits(5), JFloat(2 * Scale), JFloat(2 * Scale + 1),
      JNull, JWords(1) }
Replies ==
    { Object([answer |-> a, done |-> d, explanation |-> e, forward |-> f,
              upward |-> u, right |-> JInt(-4), pitch |-> p, yaw |-> y,
              note |-> x]) :
        a \in AnswerValues, d \in DoneValues, e \in ExplanationValues,
        f \in ForwardValues, u \in { Missing, JInt(1) },
        p \in { JInt(-90), JFloat(-90 * Scale) },
        y \in { JInt(90), JDigits(90) }, x \in { Missing, JWords(1) } }

\* What the endpoint may answer a request with: a reply, or a failure of
\* the request itself.
Failed == [kind |-> "failed"]
Responses == Replies \cup { NotJson, Refusal, Failed }

\* A call that returned None.
NoneReturned == [status |-> "returned", value |-> None]

\* AIControlBaseAPI.call_vision_llm_async: message.content is validated and
\* the command returned, a ValidationError is raised again.
BaseAPI_call_vision_llm_async(resp) ==
    IF resp = Failed THEN Raised ELSE model_validate_json(resp)

\* AIControlResponsesAPI.call_vision_llm_async: responses.parse validates
\* each output text against text_format; resp.output_parsed is the first
\* parsed text, and None when the output holds no text.
ResponsesAPI_call_vision_llm_async(resp) ==
    IF resp = Failed THEN Raised
    ELSE IF resp = Refusal THEN NoneReturned
    ELSE model_validate_json(resp)

IsCommand(x) == "done" \in DOMAIN x

\* The coordinator's use of what the call returned: model_dump_json() and
\* the test of done.
ReadResponse(x) ==
    IF IsCommand(x) THEN [status |-> "read", dump |-> model_dump_json(x), done |-> x.done]
    ELSE IF x = NoneReturned THEN [status |-> "exception", error |-> "AttributeError"]
    ELSE x

\* The arguments of call_vision_llm_async.
Inputs(image_path, question, iteration, previous_image_path, last_action_summary) ==
    [image_path |-> image_path, question |-> question, iteration |-> iteration,
     previous_image_path |-> previous_image_path,
     last_action_summary |-> last_action_summary]

\* One content part of a message: its wire tag, and a text or an image.
TextPart(tag, words) == [kind |-> "text", type |-> tag, text |-> words]
ImagePart(tag, path) == [kind |-> "image", type |-> tag, url |-> path]

FirstStep == << "This is the first step. No previous action." >>

BaseAPI_input_history_new_first(in) ==
    << TextPart("text", << "The original user question:" >>),
       TextPart("text", << in.question >>),
       TextPart("text", << "This is iteration ", ToString(in.iteration), "." >>),
       TextPart("text", << "The new input image:" >>),
       ImagePart("image_url", in.image_path) >>
    \o (IF in.previous_image_path # NoImage
        THEN << TextPart("text", << "The old input image, for context:" >>),
                ImagePart("image_url", in.previous_image_path) >>
        ELSE << >>)

\* base_api.py: input_history
BaseAPI_input_history(in) ==
    << TextPart("text", << "The original user question:" >>),
       TextPart("text", << in.question >>),
       TextPart("text", << "This is iteration ", ToString(in.iteration), "." >>) >>
    \o (IF in.previous_image_path # NoImage
        THEN << TextPart("text", << "The old input image, for context:" >>),
                ImagePart("image_url", in.previous_image_path) >>
        ELSE << >>)
    \o << TextPart("text", << "The new input image:" >>),
          ImagePart("image_url", in.image_path) >>

\* base_api.py: response_history
BaseAPI_response_history(in) ==
    IF in.last_action_summary # NoSummary
    THEN << TextPart("text", in.last_action_summary) >>
    ELSE << TextPart("text", FirstStep) >>

\* The messages AIControlBaseAPI sends to chat.completions.create.
BaseAPI_messages(in) ==
    << [role |-> "system", content |-> << "system_prompt_general", "json_addon" >>],
       [role |-> "user", content |-> BaseAPI_input_history(in)],
       [role |-> "assistant", content |-> BaseAPI_response_history(in)] >>

\* responses_api.py: input_history
ResponsesAPI_input_history(in) ==
    << TextPart("input_text", << "The original user question:" >>),
       TextPart("input_text", << in.question >>),
       TextPart("input_text", << "This is iteration ", ToString(in.iteration), "." >>) >>
    \o (IF in.previous_image_path # NoImage
        THEN << TextPart("input_text", << "The old input image, for context:" >>),
                ImagePart("input_image", in.previous_image_path) >>
        ELSE << >>)
    \o << TextPart("input_text", << "The new input image:" >>),
          ImagePart("input_image", in.image_path) >>

\* responses_api.py: response_history
ResponsesAPI_response_history(in) ==
    IF in.last_action_summary # NoSummary
    THEN << TextPart("output_text", in.last_action_summary) >>
    ELSE << TextPart("output_text", FirstStep) >>

\* The input AIControlResponsesAPI sends to responses.parse.
ResponsesAPI_input(in) ==
    << [role |-> "system", content |-> << "system_prompt_general", "pydantic_addon" >>],
       [role |-> "user", content |-> ResponsesAPI_input_history(in)],
       [role |-> "assistant", content |-> ResponsesAPI_response_history(in)] >>

\* The arguments drawn for a direct call: with and without a previous
\* frame, with and without a summary.
ClientInputs ==
    { Inputs(ImagePath(1, 2), q, i, p, s) :
        q \in Questions, i \in 1..2, p \in { NoImage, ImagePath(1, 1) },
        s \in { NoSummary, model_dump_json(Command(None, FALSE, "e1", 3, 0, -4, 0, 0)) } }

\* await AIControlBaseAPI().call_vision_llm_async(...) and the read of it.
\* A call keeps nothing for the next one, so a behaviour makes one call.
CallChat ==
    /\ last_call = NoCall
    /\ \E resp \in Responses, in \in ClientInputs :
          last_call' = [n |-> 1, op |-> "chat", arg |-> resp, prev |-> << >>,
                        inputs |-> in, request |-> BaseAPI_messages(in),
                        result |-> BaseAPI_call_vision_llm_async(resp),
                        read |-> ReadResponse(BaseAPI_call_vision_llm_async(resp))]
    /\ UNCHANGED << cam, rotate_type, ExtensionVars >>

\* await AIControlResponsesAPI().call_vision_llm_async(...) and the read of it
CallResponses ==
    /\ last_call = NoCall
    /\ \E resp \in Responses, in \in ClientInputs :
          last_call' = [n |-> 1, op |-> "responses", arg |-> resp, prev |-> << >>,
                        inputs |-> in, request |-> ResponsesAPI_input(in),
                        result |-> ResponsesAPI_call_vision_llm_async(resp),
                        read |-> ReadResponse(ResponsesAPI_call_vision_llm_async(resp))]
    /\ UNCHANGED << cam, rotate_type, ExtensionVars >>

\* The values of the mode setting: the two modes, the empty string of an
\* unset setting, and a name no case of get_mode matches.
Modes == { "Responses API", "Chat Completions", "", "Completions" }
ValueError == [status |-> "exception", error |-> "ValueError"]
RuntimeError == [status |-> "exception", error |-> "RuntimeError"]
NoClient == [status |-> "none"]
Client(class) == [status |-> "client", class |-> class]

get_mode_default(mode, configured) ==
    CASE mode = "Responses API" ->
            IF configured THEN Client("AIControlResponsesAPI") ELSE RuntimeError
      [] OTHER ->
            IF configured THEN Client("AIControlBaseAPI") ELSE RuntimeError

\* get_mode(): the client of the saved mode; its constructor raises when
\* URL, key or model name are not configured.
get_mode(mode, configured) ==
    CASE mode = "Responses API" ->
            IF configured THEN Client("AIControlResponsesAPI") ELSE RuntimeError
      [] mode = "Chat Completions" ->
            IF configured THEN Client("AIControlBaseAPI") ELSE RuntimeError
      [] OTHER -> ValueError

\* Settings saves in one behaviour of SpecClient.
MaxRebuilds == 2

\* ViewportAnalyzer(): self.ai = get_mode()
Construct ==
    /\ last_call = NoCall
    /\ \E mode \in Modes, configured \in BOOLEAN :
          last_call' = [n |-> 1, op |-> "construct", prev |-> << >>,
                        arg |-> [mode |-> mode, configured |-> configured],
                        result |-> get_mode(mode, configured),
                        ai_before |-> NoClient,
                        ai |-> IF get_mode(mode, configured).status = "client"
                               THEN get_mode(mode, configured) ELSE NoClient]
    /\ UNCHANGED << cam, rotate_type, ExtensionVars >>

\* analyzer.rebuild_ai(): self.ai = get_mode(); an analyzer exists only if
\* its construction returned.
RebuildAi ==
    /\ last_call.op \in { "construct", "rebuild_ai" }
    /\ last_call.ai # NoClient
    /\ last_call.n <= MaxRebuilds
    /\ \E mode \in Modes, configured \in BOOLEAN :
          last_call' = [n |-> last_call.n + 1, op |-> "rebuild_ai", prev |-> << >>,
                        arg |-> [mode |-> mode, configured |-> configured],
                        result |-> get_mode(mode, configured),
                        ai_before |-> last_call.ai,
                        ai |-> IF get_mode(mode, configured).status = "client"
                               THEN get_mode(mode, configured) ELSE last_call.ai]
    /\ UNCHANGED << cam, rotate_type, ExtensionVars >>

InitClient ==
    /\ cam = [translate |-> <<0, 0, 0>>, rotateXYZ |-> <<0, 0, 0>>]
    /\ rotate_type = TypeOfRotate(cam)
    /\ last_call = NoCall
    /\ run = [r \in Runs |-> IdleRun]
    /\ task = 0
    /\ label = NoLabel
    /\ last_result = NoResult
    /\ last_input = NoInput
    /\ ai_question = ""
    /\ stop_ready = 0
    /\ stop_await = [r \in Runs |-> 0]
    /\ calls_left = MaxCalls
    /\ hist = [r \in Runs |-> << >>]
    /\ cnt = [r \in Runs |-> NoCount]
    /\ ret = [r \in Runs |-> NoResult]
    /\ cam_at_call = [r \in Runs |-> NoCamera]
    /\ prior = [r \in Runs |-> NoPrior]
    /\ ai = "AIControlBaseAPI"
    /\ used = [r \in Runs |-> {}]

NextClient == CallChat \/ CallResponses \/ Construct \/ RebuildAi

SpecClient == InitClient /\ [][NextClient]_vars

\* The reply has exactly the fields of AICameraParameters, each of its own
\* JSON type.
Exact(obj) ==
    /\ \A k \in Fields : obj[k].t # "missing"
    /\ obj[ExtraKey].t = "missing"
    /\ \A k \in NumericFields : obj[k].t = "int"
    /\ obj.done.t = "bool"
    /\ obj.explanation.t = "str"
    /\ obj.answer.t \in { "str", "null" }

\* C19: the chat-style client raises a validation failure for every reply
\* with a missing key, a key of the wrong type or a key outside the fields,
\* and returns a command only for replies with exactly the fields and
\* integer numeric fields.
C19_StrictValidation ==
    (last_call.op = "chat" /\ last_call.arg.kind = "object") =>
        IF Exact(last_call.arg.obj)
        THEN IsCommand(last_call.result)
        ELSE last_call.result = ValidationError

\* What the chat-style client does refuse: a reply without explanation, or
\* with a field whose value cannot be read as the field's type.
C19_RequiredAndReadable ==
    (last_call.op = "chat" /\ last_call.arg.kind = "object") =>
        LET obj == last_call.arg.obj
        IN  (last_call.result = ValidationError) <=>
                \/ obj.explanation.t # "str"
                \/ obj.answer.t \notin { "missing", "null", "str" }
                \/ obj.forward.t \in { "null" }
                \/ obj.forward.t = "str" /\ obj.forward.spells # "int"
                \/ obj.forward.t = "float" /\ obj.forward.v % Scale # 0

\* A reply with a key outside the fields, a numeric field given as a string
\* and keys missing is returned as a command.
C19_LaxAccepted ==
    /\ last_call.op = "chat"
    /\ last_call.arg.kind = "object"
    /\ last_call.arg.obj.note = JWords(1)
    /\ last_call.arg.obj.forward = JDigits(5)
    /\ last_call.arg.obj.upward = Missing
    /\ last_call.arg.obj.done = Missing
    /\ IsCommand(last_call.result)
    /\ last_call.result.forward = 5
    /\ last_call.result.upward = 0

\* C20: a call of either client returns a command or raises; it never
\* returns a value that is not a command, so the coordinator's read of it
\* does not fail.
C20_CommandOrRaise ==
    last_call.op \in { "chat", "responses" } =>
        /\ IsCommand(last_call.result) \/ last_call.result.status = "exception"
        /\ IsCommand(last_call.result) => last_call.read.status = "read"

\* The chat-style client keeps to it.
C20_ChatCommandOrRaise ==
    last_call.op = "chat" =>
        IsCommand(last_call.result) \/ last_call.result.status = "exception"

\* The responses-style client returns None for a reply without text, and
\* the coordinator's read of it raises.
C20_NoneReturned ==
    /\ last_call.op = "responses"
    /\ last_call.arg = Refusal
    /\ last_call.result = NoneReturned
    /\ last_call.read.error = "AttributeError"

\* A request without what the two wire formats are allowed to differ in:
\* the tag of each part and the addendum of the system prompt.
PartItem(part) ==
    IF part.kind = "text" THEN [kind |-> "text", text |-> part.text]
    ELSE [kind |-> "image", url |-> part.url]
Items(request) ==
    [j \in 1..Len(request) |->
        [role |-> request[j].role,
         content |-> IF request[j].role = "system" THEN << request[j].content[1] >>
                     ELSE [k \in 1..Len(request[j].content) |->
                              PartItem(request[j].content[k])]]]

\* The exchange as the claim lists it.
ExpectedItems(in) ==
    << [role |-> "system", content |-> << "system_prompt_general" >>],
       [role |-> "user", content |->
            << [kind |-> "text", text |-> << "The original user question:" >>],
               [kind |-> "text", text |-> << in.question >>],
               [kind |-> "text", text |-> << "This is iteration ", ToString(in.iteration), "." >>] >>
            \o (IF in.previous_image_path = NoImage THEN << >>
                ELSE << [kind |-> "text", text |-> << "The old input image, for context:" >>],
                        [kind |-> "image", url |-> in.previous_image_path] >>)
            \o << [kind |-> "text", text |-> << "The new input image:" >>],
                  [kind |-> "image", url |-> in.image_path] >>],
       [role |-> "assistant", content |->
            << [kind |-> "text",
                text |-> IF in.last_action_summary = NoSummary THEN FirstStep
                         ELSE in.last_action_summary] >>] >>

\* C21: for the same inputs both clients send the same three turns with the
\* same items in the same order (system prompt; question label, question,
\* iteration label, previous-frame label and image only if given,
\* current-frame label and image; one assistant text), and differ only in
\* the part tags and the system-prompt addendum.
C21_SameExchange ==
    last_call.op \in { "chat", "responses" } =>
        /\ last_call.request = IF last_call.op = "chat"
                               THEN BaseAPI_messages(last_call.inputs)
                               ELSE ResponsesAPI_input(last_call.inputs)
        /\ Items(last_call.request) = ExpectedItems(last_call.inputs)
        /\ Items(BaseAPI_messages(last_call.inputs))
              = Items(ResponsesAPI_input(last_call.inputs))

C21_Witness ==
    /\ last_call.op = "chat"
    /\ last_call.inputs.previous_image_path # NoImage
    /\ last_call.inputs.last_action_summary # NoSummary
    /\ Len(last_call.request[2].content) = 7
    /\ last_call.request # ResponsesAPI_input(last_call.inputs)

\* C22: constructing the coordinator or rebuilding its client with a mode
\* that is neither "Responses API" nor "Chat Completions" (the empty mode
\* included) raises, and no client is created: the coordinator has the
\* client it had before, and none after a failed construction.
C22_UnknownModeRaises ==
    (/\ last_call.op \in { "construct", "rebuild_ai" }
     /\ last_call.arg.mode \notin { "Responses API", "Chat Completions" }) =>
        /\ last_call.result = ValueError
        /\ last_call.ai = last_call.ai_before

C22_Witness ==
    /\ last_call.op = "rebuild_ai"
    /\ last_call.arg = [mode |-> "", configured |-> TRUE]
    /\ last_call.result = ValueError
    /\ last_call.ai = Client("AIControlResponsesAPI")

\* The arguments analyze_control passes to call_vision_llm_async.
CallInputs(f) ==
    Inputs(f.img_path, f.question, f.i, f.prev_img, f.last_action_summary)

\* The images among the parts of a message.
Images(content) == { k \in 1..Len(content) : content[k].kind = "image" }

\* C23: the model call of iteration i >= 2 passes the frame captured in
\* iteration i-1 and the serialised response of iteration i-1; the call of
\* iteration 1 passes no previous frame and the first-step placeholder.
\* Every call carries at most two images and exactly one assistant text.
C23_OnlyPreviousStep ==
    \A r \in Runs :
        run[r].pc = "model" =>
            LET f == run[r]
                chat == BaseAPI_messages(CallInputs(f))
                native == ResponsesAPI_input(CallInputs(f))
            IN  /\ f.img_path = ImagePath(r, f.i)
                /\ Len(hist[r]) = f.i - 1
                /\ IF f.i = 1
                   THEN /\ f.prev_img = NoImage
                        /\ f.last_action_summary = NoSummary
                        /\ chat[3].content[1].text = FirstStep
                        /\ Cardinality(Images(chat[2].content)) = 1
                   ELSE /\ f.prev_img = ImagePath(r, f.i - 1)
                        /\ f.last_action_summary = model_dump_json(hist[r][f.i - 1])
                        /\ chat[3].content[1].text = model_dump_json(hist[r][f.i - 1])
                        /\ chat[2].content[5].url = ImagePath(r, f.i - 1)
                /\ Cardinality(Images(chat[2].content)) <= 2
                /\ Cardinality(Images(native[2].content)) <= 2
                /\ Len(chat[3].content) = 1
                /\ Len(native[3].content) = 1

C23_Witness ==
    /\ run[1].pc = "model"
    /\ run[1].i = 3
    /\ run[1].prev_img = ImagePath(1, 2)
    /\ hist[1][1] # hist[1][2]
    /\ run[1].last_action_summary = model_dump_json(hist[1][2])

\* C24: every run, whatever the runs before it did, starts with iteration 1,
\* no previous frame, no last action summary and both totals at 0, and its
\* first model call carries the first-step placeholder and a single image.
C24_FreshLoopState ==
    \A r \in Runs :
        (run[r].pc \in {"capture", "model"} /\ cnt[r].captures = 1) =>
            LET f == run[r]
            IN  /\ f.i = 1
                /\ f.prev_img = NoImage
                /\ f.last_action_summary = NoSummary
                /\ f.total_translation = 0
                /\ f.total_rotation = 0
                /\ f.pc = "model" =>
                      /\ cnt[r].calls = 1
                      /\ BaseAPI_messages(CallInputs(f))[3].content = << TextPart("text", FirstStep) >>
                      /\ Cardinality(Images(BaseAPI_messages(CallInputs(f))[2].content)) = 1
                      /\ ResponsesAPI_input(CallInputs(f))[3].content
                            = << TextPart("output_text", FirstStep) >>
                      /\ Cardinality(Images(ResponsesAPI_input(CallInputs(f))[2].content)) = 1

\* The first model call of a run that follows a run which moved the camera.
C24_Witness ==
    \E r \in Runs :
        /\ run[r].pc = "model"
        /\ cnt[r].calls = 1
        /\ prior[r].last_result.status = "error"
        /\ prior[r].last_result.iterations = 2
        /\ prior[r].last_result.total_translation > 0
        /\ run[r].total_translation = 0

\* A call of apply_translate_and_rotate_ai with a rotation delta on a camera
\* that has a rotateXYZ value.
Rotated ==
    /\ last_call'.n # last_call.n
    /\ last_call'.op = "apply"
    /\ last_call'.arg.pitch # 0 \/ last_call'.arg.yaw # 0
    /\ cam.rotateXYZ # Absent

\* C25: apply_translate_and_rotate_ai adds pitch to the X component of the
\* existing rotateXYZ value and yaw to its Z component, and writes the Y
\* (roll) component back with exactly the value it had before the call.
C25_PitchYawAddedRollKept ==
    [][Rotated =>
          cam'.rotateXYZ = << cam.rotateXYZ[1] + last_call'.arg.pitch * Scale,
                              cam.rotateXYZ[2],
                              cam.rotateXYZ[3] + last_call'.arg.yaw * Scale >>]_vars

\* C25, as the code has it: pitch is added to the whole part of X, yaw is
\* subtracted from the whole part of Z, and Y is written back as its whole
\* part with nothing added, so a whole roll is kept exactly.
C25_PitchAddedYawSubtractedRollTruncated ==
    [][Rotated =>
          /\ cam'.rotateXYZ = << Trunc(cam.rotateXYZ[1]) + last_call'.arg.pitch * Scale,
                                 Trunc(cam.rotateXYZ[2]),
                                 Trunc(cam.rotateXYZ[3]) - last_call'.arg.yaw * Scale >>
          /\ IsWhole(cam.rotateXYZ[2]) => cam'.rotateXYZ[2] = cam.rotateXYZ[2]]_vars

C25_Witness ==
    /\ last_call.op = "apply"
    /\ last_call.arg = Delta(0, 0, 0, -90, 90)
    /\ last_call.before.rotateXYZ = <<Scale + 1, 1, 0>>
    /\ cam.rotateXYZ = <<-89 * Scale, 0, -90 * Scale>>

\* A call of apply_translate_and_rotate_ai with a translation delta.
Translated ==
    /\ last_call'.n # last_call.n
    /\ last_call'.op = "apply"
    /\ last_call'.arg.forward # 0 \/ last_call'.arg.upward # 0 \/ last_call'.arg.right # 0

\* The row vector v times the upper 3x3 part of the matrix M.
Rotate3(v, M) == [j \in 1..3 |-> M[1][j] * v[1] + M[2][j] * v[2] + M[3][j] * v[3]]

ExistingTranslate(c) == IF c.translate = Absent THEN <<0, 0, 0>> ELSE c.translate

\* C26: apply_translate_and_rotate_ai forms the camera-local vector
\* (-right, upward, -forward), multiplies it by the rotational part of the
\* local-to-world transform read before this call's rotation delta is
\* applied, and adds the product to the existing translation.
C26_LocalVectorMinusRight ==
    [][Translated =>
          LET d == last_call'.arg
              v == << (-d.right) * Scale, d.upward * Scale, (-d.forward) * Scale >>
              world == Rotate3(v, ComputeLocalToWorldTransform(cam))
          IN  cam'.translate = [j \in 1..3 |-> ExistingTranslate(cam)[j] + world[j]]]_vars

\* C26, as the code has it: the camera-local vector is (right, upward,
\* -forward); its product with the rotational part of the transform of the
\* pose before the call is added, component by component and each side
\* truncated toward zero, to the existing translation.
C26_LocalVectorPlusRight ==
    [][Translated =>
          LET d == last_call'.arg
              v == << d.right * Scale, d.upward * Scale, (-d.forward) * Scale >>
              world == Rotate3(v, ComputeLocalToWorldTransform(cam))
          IN  cam'.translate =
                 [j \in 1..3 |-> Trunc(ExistingTranslate(cam)[j]) + Trunc(world[j])]]_vars

\* A move to the right combined with a turn, on a rotated camera with a
\* fractional position: the move follows the orientation before the turn.
C26_Witness ==
    /\ last_call.op = "apply"
    /\ last_call.arg = Delta(0, 0, 4, 0, 90)
    /\ last_call.before = [translate |-> <<Scale + 1, -1, 0>>,
                           rotateXYZ |-> <<90 * Scale, 0, 180 * Scale>>]
    /\ cam = [translate |-> <<-3 * Scale, 0, 0>>,
              rotateXYZ |-> <<90 * Scale, 0, 90 * Scale>>]

WholeVector(v) == v # Absent /\ \A j \in 1..3 : IsWhole(v[j])

\* C27: every translation and rotation value apply_translate_and_rotate_ai
\* writes is whole, so after a call with a non-zero delta the camera's
\* translate and rotateXYZ hold only whole units.
C27_WholeAfterNonZero ==
    (last_call.op = "apply" /\ last_call.arg # Delta(0, 0, 0, 0, 0)) =>
        /\ cam.translate # Absent => WholeVector(cam.translate)
        /\ cam.rotateXYZ # Absent => WholeVector(cam.rotateXYZ)

\* C27, as the code has it: what a call writes is whole (the whole part of
\* the existing component plus the whole part of the delta component); it
\* writes translate when the translation delta is non-zero and an existing
\* rotateXYZ when the rotation delta is non-zero, and what it does not
\* write keeps its value, fractional or not.
C27_WrittenIsWhole ==
    [][(last_call'.n # last_call.n /\ last_call'.op = "apply") =>
          /\ Translated => WholeVector(cam'.translate)
          /\ Rotated => WholeVector(cam'.rotateXYZ)
          /\ ~Translated => cam'.translate = cam.translate
          /\ ~Rotated => cam'.rotateXYZ = cam.rotateXYZ]_vars

\* Both parts of a fractional pose have been written.
C27_Witness ==
    /\ last_call.op = "apply"
    /\ last_call.arg = Delta(0, 0, 4, 0, 90)
    /\ last_call.before = [translate |-> <<Scale + 1, -1, 0>>,
                           rotateXYZ |-> <<90 * Scale + 1, 0, 0>>]
    /\ cam = [translate |-> <<5 * Scale, 0, 0>>,
              rotateXYZ |-> <<90 * Scale, 0, -90 * Scale>>]

Analyzing == << "Analyzing..." >>

\* C28: when analyze_control ends with a propagated exception of the client
\* (validation or transport failure) the response label shows a failure
\* message and does not stay at "Analyzing..."; for the three result
\* records it shows three distinct messages, one per status.
C28_FailureShown ==
    \A r \in Runs :
        /\ (run[r].pc = "raised" /\ cnt[r].calls >= 1) =>
              (label # Analyzing /\ label # NoLabel)
        /\ run[r].pc = "returned" =>
              /\ label = format_result(ret[r])
              /\ label[1] = CASE ret[r].status = "error" -> "Screenshot failed"
                              [] ret[r].status = "done" -> "Analysis completed"
                              [] ret[r].status = "max_iters_reached" -> "Maximum iterations reached"

\* What the label shows after a run: one message per status of a returned
\* record, and still "Analyzing..." after an exception.
C28_LabelAfterRun ==
    \A r \in Runs :
        /\ run[r].pc = "raised" => label = Analyzing
        /\ run[r].pc = "returned" =>
              /\ label = format_result(ret[r])
              /\ label[1] = CASE ret[r].status = "error" -> "Screenshot failed"
                              [] ret[r].status = "done" -> "Analysis completed"
                              [] ret[r].status = "max_iters_reached" -> "Maximum iterations reached"

\* The third model call of a run raised and the label was left as it was.
C28_StillAnalyzing ==
    /\ run[1].pc = "raised"
    /\ cnt[1].calls = 3
    /\ cnt[1].deltas = 2
    /\ label = Analyzing

\* No task made by Apply is waiting for its first step or inside a run.
NoRunActive == \A r \in Runs : run[r].pc \notin Active \cup {"ready"}

\* C29: after a run has ended in any way the next Apply click is not
\* rejected: with no run active the guard of click_analyze_control is false,
\* and the click made then starts a task.  The handle is cleared by the
\* ending run itself; it refers to an ended task only when that task was
\* cancelled before its first step, until the _stop awaiting it resumes.
C29_NotStuck ==
    /\ NoRunActive => (~Running /\ FreeSlots # {})
    /\ \A r \in Runs :
          (TaskDone(r) /\ task = r) =>
              (run[r].pc = "cancelled" /\ cnt[r].captures = 0 /\ stop_await[r] > 0)

\* The step that ends a run leaves no handle behind.
C29_EndClearsHandle ==
    [][\A r \in Runs :
          (run[r].pc \in Active /\ TaskDone(r)') => task' = 0]_vars

\* A run started by Apply is under way after an earlier run ended with a
\* record.
C29_Witness ==
    \E q \in Runs :
        /\ run[q].pc \in Active
        /\ task = q
        /\ prior[q].last_result.status = "done"

\* C30: whenever a run started by Apply is still active, self._task refers
\* to it, under every interleaving of Apply clicks, Stop clicks, resumptions
\* of _stop and run completion; so a Stop cancels it and an Apply is
\* rejected while it runs.
C30_HandleFollowsRun ==
    \A r \in Runs :
        (run[r].pc \in Active \cup {"ready"} /\ ~run[r].must_cancel) =>
            /\ task = r
            /\ Running

\* A run is active and not cancelled while the handle is None: the _stop
\* that awaited the run before it resumed after the next Apply.
C30_HandleLost ==
    \E r \in Runs :
        /\ run[r].pc \in Active
        /\ ~run[r].must_cancel
        /\ task = 0
        /\ \E q \in Runs : q # r /\ run[q].pc = "cancelled"

\* C31: once task.cancel() has been called on a run, the run applies no
\* further camera delta and issues no further capture or model call,
\* whichever await it was suspended at: its only step is the one that ends
\* it, and that step leaves the camera and the run's counts alone.
C31_NothingAfterCancel ==
    [][\A r \in Runs :
          (run[r].must_cancel /\ ~TaskDone(r)) =>
              /\ cnt'[r].deltas = cnt[r].deltas
              /\ cnt'[r].captures = cnt[r].captures
              /\ cnt'[r].calls = cnt[r].calls
              /\ cnt'[r].waits = cnt[r].waits
              /\ hist'[r] = hist[r]
              /\ run'[r] # run[r] => (run'[r].pc = "cancelled" /\ cam' = cam)]_vars

\* A run cancelled in the middle of the settle wait that followed a delta.
C31_Witness ==
    \E r \in Runs :
        /\ run[r].pc = "cancelled"
        /\ run[r].must_cancel
        /\ cnt[r].deltas = 1
        /\ cnt[r].captures = 1
        /\ cnt[r].waits \in 1..(SettleFrames - 1)

\* ------------------------------------------- settings saved during a run
\* The items of the mode combo box.
ModeItems == { "Chat Completions", "Responses API" }
ClientClasses == { "AIControlBaseAPI", "AIControlResponsesAPI" }

\* Save in the settings window: the fields are persisted and
\* analyzer.rebuild_ai() assigns self.ai = get_mode(); when the constructor
\* of the client raises, the attribute keeps its value.
SaveSettings ==
    /\ \E mode \in ModeItems, configured \in BOOLEAN :
          ai' = IF get_mode(mode, configured).status = "client"
                THEN get_mode(mode, configured).class ELSE ai
    /\ UNCHANGED << cam, run, task, label, last_result, last_input, ai_question,
                    stop_ready, stop_await, calls_left, hist, cnt, ret, cam_at_call,
                    prior, rotate_type, last_call, used >>

\* One analyze_control run, with the settings window open beside it.
InitSave ==
    /\ cam \in CamInits
    /\ run = [r \in Runs |-> IF r = 1 THEN [IdleRun EXCEPT !.pc = "ready"] ELSE IdleRun]
    /\ task = 1
    /\ label = NoLabel
    /\ last_result = NoResult
    /\ last_input = NoInput
    /\ ai_question \in Questions
    /\ stop_ready = 0
    /\ stop_await = [r \in Runs |-> 0]
    /\ calls_left = max_iters
    /\ hist = [r \in Runs |-> << >>]
    /\ cnt = [r \in Runs |-> NoCount]
    /\ ret = [r \in Runs |-> NoResult]
    /\ cam_at_call = [r \in Runs |-> NoCamera]
    /\ prior = [r \in Runs |-> NoPrior]
    /\ rotate_type = TypeOfRotate(cam)
    /\ last_call = NoCall
    /\ ai \in ClientClasses
    /\ used = [r \in Runs |-> {}]

NextSave == NextLoop \/ SaveSettings

SpecSave == InitSave /\ [][NextSave]_vars

\* C32: all model calls of one run are made with the same client, the one
\* the coordinator held when the run started; saving settings while the run
\* is in flight does not change the client of its remaining iterations.
C32_OneClientPerRun ==
    \A r \in Runs : Cardinality(used[r]) <= 1

\* What does hold: the call of an iteration is made with the client held
\* when the call is made, and a save while it is pending does not touch it.
C32_ClientReadPerCall ==
    [][\A r \in Runs :
          /\ cnt'[r].calls = cnt[r].calls => used'[r] = used[r]
          /\ cnt'[r].calls = cnt[r].calls + 1 => used'[r] = used[r] \cup {ai}]_vars

\* A run whose second model call went to the other client.
C32_ClientSwitched ==
    /\ cnt[1].calls = 2
    /\ used[1] = ClientClasses
    /\ run[1].pc = "model"

\* C33: the number of camera deltas a run applied is iterations - 1 when
\* its record is "done" or "screenshot_failed" and 10 when it is
\* "max_iters_reached": in an exhausted run the command of iteration 10 is
\* applied too and followed by the settle wait before the record is returned.
C33_DeltasPerRecord ==
    \A r \in Runs :
        IsRecord(ret[r]) =>
            /\ ret[r].status \in {"done", "error"} =>
                  /\ cnt[r].deltas = ret[r].iterations - 1
                  /\ cnt[r].waits = SettleFrames * (ret[r].iterations - 1)
            /\ ret[r].status = "error" => ret[r].reason = "screenshot_failed"
            /\ ret[r].status = "max_iters_reached" =>
                  /\ cnt[r].deltas = 10
                  /\ ret[r].iterations = 10
                  /\ Len(hist[r]) = 10
                  /\ ~hist[r][10].done
                  /\ cnt[r].waits = SettleFrames * 10
                  /\ cam = ApplyAll(InitialCamera(r), hist[r], 10)

\* An exhausted run whose tenth command turned the camera.
C33_Witness ==
    /\ ret[1].status = "max_iters_reached"
    /\ cnt[1].deltas = 10
    /\ hist[1][10].yaw # 0
    /\ hist[1][9].yaw = 0
    /\ cam # ApplyAll(InitialCamera(1), hist[1], 9)

\* ------------------------------------------------------ the Reset button
\* Reset Camera clicks in one behaviour of SpecReset.
MaxResets == 1

AttributeError == [status |-> "exception", error |-> "AttributeError"]
Returned == [status |-> "returned"]

\* click_reset_camera: self.last_result.get("initial_cam_parameters") is
\* handed to reset_initial_camera_position; last_result is None until a run
\* has returned a record.
click_reset_camera ==
    /\ last_call.n < MaxResets
    /\ IF last_result = NoResult
       THEN /\ last_call' = [n |-> last_call.n + 1, op |-> "click_reset_camera",
                             prev |-> << >>, result |-> AttributeError]
            /\ UNCHANGED << cam, rotate_type >>
       ELSE /\ cam' = reset_initial_camera_position(
                         cam, rotate_type, json_dumps(last_result.initial_cam_parameters))
            /\ rotate_type' = RotateTypeAfterReset(rotate_type)
            /\ last_call' = [n |-> last_call.n + 1, op |-> "click_reset_camera",
                             prev |-> << >>, result |-> Returned]
    /\ UNCHANGED ExtensionVars

\* The extension with its three buttons.
NextReset == Next \/ click_reset_camera

SpecReset == Init /\ [][NextReset]_vars

ResetClicked == last_call'.n # last_call.n /\ last_call'.op = "click_reset_camera"

\* The run r has ended after moving the camera and no other task exists, so
\* r is the most recent run.
MostRecentMoved(r) ==
    /\ run[r].pc \in Ended
    /\ cnt[r].deltas >= 1
    /\ \A q \in Runs \ {r} : run[q].pc = "none"

\* C34: after a run that moved the camera, however it ended (record,
\* exception or cancellation), a Reset Camera click restores translate and
\* rotateXYZ to the pose the camera had when that run started, and does not
\* raise.
C34_ResetRestoresRunStart ==
    [][ResetClicked =>
          \A r \in Runs :
              MostRecentMoved(r) =>
                  /\ last_call'.result = Returned
                  /\ cam' = InitialCamera(r)]_vars

\* What does hold: after a run that returned a record the click restores
\* the pose of that run's start.
C34_ResetAfterRecord ==
    [][ResetClicked =>
          \A r \in Runs :
              (MostRecentMoved(r) /\ run[r].pc = "returned") =>
                  /\ last_call'.result = Returned
                  /\ cam' = InitialCamera(r)]_vars

\* The click after a cancelled first run raised and left the camera where
\* the run had moved it.
C34_ResetRaised ==
    /\ last_call.op = "click_reset_camera"
    /\ last_call.result = AttributeError
    /\ \E r \in Runs :
          /\ run[r].pc = "cancelled"
          /\ cnt[r].deltas = 1
          /\ cam # InitialCamera(r)

\* -------------------------------------------------- ViewportCapturer
\* "for _ in range(40)"
MaxPolls == 40

\* What one poll of the captured file finds: os.path.getsize returns a size
\* or raises one of the two errors the loop passes over.
Size(n) == [kind |-> "size", size |-> n]
FileNotFoundError == [kind |-> "FileNotFoundError", size |-> 0]
PermissionError == [kind |-> "PermissionError", size |-> 0]
NoPoll == [kind |-> "none", size |-> 0]
PollOutcomes == { Size(0), Size(1), Size(2), FileNotFoundError, PermissionError }

\* What the conversion to JPEG does once the size is stable: it succeeds,
\* raises an error the loop passes over, or raises another error.
Conversions == { "ok", "PermissionError", "FileNotFoundError", "OSError" }

Stable_once(size, last) == size > 0

\* "if size > 0 and size == last"
Stable(size, last) == size > 0 /\ size = last

PathReturned == [status |-> "returned", value |-> "jpg_path"]
NoneReturnedBy(why) == [status |-> "returned", value |-> None, why |-> why]

\* The frame of a save_async call.
SaveFrame(pc, last, polls, prev, cur, conv, result) ==
    [n |-> 1, op |-> "save_async", prev |-> << >>, pc |-> pc, last |-> last,
     polls |-> polls, before |-> prev, read |-> NoPoll, poll |-> cur,
     conversion |-> conv, result |-> result]

\* save_async up to "await capture.wait_for_result()".
SaveStart ==
    /\ last_call = NoCall
    /\ \E vw \in { "window", None } :
          last_call' = IF vw = None
                       THEN SaveFrame("done", -1, 0, NoPoll, NoPoll, "none",
                                      NoneReturnedBy("no viewport window"))
                       ELSE SaveFrame("capture", -1, 0, NoPoll, NoPoll, "none", NoResult)
    /\ UNCHANGED << cam, rotate_type, ExtensionVars >>

\* wait_for_result returned.
CaptureResult ==
    /\ last_call.op = "save_async"
    /\ last_call.pc = "capture"
    /\ \E result \in BOOLEAN :
          last_call' = IF ~result
                       THEN [last_call EXCEPT !.pc = "done",
                                              !.result = NoneReturnedBy("capture failed")]
                       ELSE [last_call EXCEPT !.pc = "poll"]
    /\ UNCHANGED << cam, rotate_type, ExtensionVars >>

\* One pass of the polling loop, up to the return or to asyncio.sleep(0.05).
Poll ==
    /\ last_call.op = "save_async"
    /\ last_call.pc = "poll"
    /\ last_call.polls < MaxPolls
    /\ \E found \in PollOutcomes, conv \in Conversions :
          LET f == [last_call EXCEPT !.polls = @ + 1, !.before = last_call.poll,
                                     !.read = IF last_call.poll.kind = "size"
                                              THEN last_call.poll ELSE @,
                                     !.poll = found, !.conversion = "none"]
          IN  last_call' =
                 IF found.kind # "size" THEN f
                 ELSE IF Stable(found.size, f.last)
                      THEN CASE conv = "ok" ->
                                   [f EXCEPT !.pc = "done", !.conversion = conv,
                                             !.result = PathReturned]
                             [] conv = "OSError" ->
                                   [f EXCEPT !.pc = "done", !.conversion = conv,
                                             !.result = Raised]
                             [] OTHER -> [f EXCEPT !.conversion = conv]
                      ELSE [f EXCEPT !.last = found.size]
    /\ UNCHANGED << cam, rotate_type, ExtensionVars >>

\* The loop is exhausted: "return None".
PollsExhausted ==
    /\ last_call.op = "save_async"
    /\ last_call.pc = "poll"
    /\ last_call.polls = MaxPolls
    /\ last_call' = [last_call EXCEPT !.pc = "done",
                                      !.result = NoneReturnedBy("polls exhausted")]
    /\ UNCHANGED << cam, rotate_type, ExtensionVars >>

NextCapture == SaveStart \/ CaptureResult \/ Poll \/ PollsExhausted

SpecCapture == InitClient /\ [][NextCapture]_vars

\* Every awaited call of save_async (the capture result, the sleep between
\* polls) returns.
SpecCaptureFair == SpecCapture /\ WF_vars(NextCapture)

SaveDone == last_call.op = "save_async" /\ last_call.pc = "done"
ReturnedNone == last_call.result.status = "returned" /\ last_call.result.value = None
ReturnedPath == last_call.result = PathReturned

\* The bounds and the failure cases of save_async: never more than 40 polls;
\* a call that ended without polling (no viewport window, or the capture
\* reported failure) returned None, and a call that returned None after
\* polling had used all 40 polls.
C35_BoundedPolls ==
    last_call.op = "save_async" =>
       /\ last_call.polls <= MaxPolls
       /\ SaveDone /\ last_call.polls = 0 => ReturnedNone
       /\ SaveDone /\ ReturnedNone /\ last_call.polls > 0 => last_call.polls = MaxPolls

\* C35 as stated: save_async returns an image path only after two
\* consecutive polls read the same positive file size; it polls at most 40
\* times and returns None when the window is missing, the capture reports
\* failure or the polls are used up.
C35_StableOnConsecutivePolls ==
    /\ C35_BoundedPolls
    /\ SaveDone /\ ReturnedPath =>
          /\ last_call.poll.kind = "size"
          /\ last_call.before.kind = "size"
          /\ last_call.poll.size > 0
          /\ last_call.poll.size = last_call.before.size

C35_StableOnSuccessiveReads ==
    /\ C35_BoundedPolls
    /\ SaveDone /\ ReturnedPath =>
          /\ last_call.poll.kind = "size"
          /\ last_call.read.kind = "size"
          /\ last_call.poll.size > 0
          /\ last_call.poll.size = last_call.read.size
          /\ last_call.conversion = "ok"
    /\ SaveDone /\ last_call.result = Raised => last_call.conversion = "OSError"

\* C35, amended: save_async returns an image path only after a poll read the
\* same positive file size as the latest earlier poll that read a size (polls
\* that raised FileNotFoundError or PermissionError in between are passed
\* over) and the conversion to JPEG succeeded; it polls at most 40 times,
\* returns None when the window is missing, the capture reports failure or
\* the 40 polls are used up, raises when the conversion fails with another
\* error, and, every awaited call returning, always ends.
C35_SaveEnds == [] C35_StableOnSuccessiveReads /\ <> SaveDone

\* A path returned although the poll before the last one raised.
C35_Witness ==
    /\ SaveDone
    /\ ReturnedPath
    /\ last_call.before.kind = "PermissionError"
    /\ last_call.polls > 2

====
